---- MODULE Spec2Model ----
(***************************************************************************)
(* A model of the scheduling core of the life-management system:           *)
(*   backend/pipeline/scheduler.py  TimeSlot, TimeSlotFinder,              *)
(*                                  ScheduleOptimizer                      *)
(*   backend/main.py                the task endpoints that schedule       *)
(*   src/ai/deepseek_agent.py       the agent the endpoints consult        *)
(*                                                                         *)
(* Datetimes are integers: minutes since 00:00 of day 0.  Python dicts are *)
(* records, and a key a dict lacks is a field the record lacks.  A value   *)
(* that may be None is a record [some |-> FALSE] or                        *)
(* [some |-> TRUE, val |-> v].  Every call returns                         *)
(*   [kind |-> "ok", val |-> v]   or   [kind |-> "raise", exc |-> name].   *)
(*                                                                         *)
(* The resolution of time is one minute.  The seconds and microseconds of  *)
(* datetime.now(), which replace(hour=h, minute=0, second=0) leaves in the *)
(* microsecond field, shift every slot of a call by the same amount below  *)
(* a minute and are not represented.                                       *)
(***************************************************************************)
EXTENDS Integers, Sequences, FiniteSets, TLC

VARIABLES
    pc,     \* position of the caller of the scheduler: "idle" | "returned"
    call,   \* the operation in progress with its arguments
    ret,    \* what the operation returned
    db,     \* the task store: the rows of backend/main.py's tasks table, or the
            \* tasks_db list of src/main.py
    now,    \* backend/main.py: the wall clock, datetime.now()
    created \* how many tasks the service has constructed

vars == <<pc, call, ret, db, now, created>>

\* the state of the backend, which the scheduler's own operations never touch
store == <<db, now, created>>

(***************************************************************************)
(* Bounds of the model.                                                    *)
(***************************************************************************)
MaxDay == 1          \* calendar days 0..MaxDay are offered as dates
MaxTasks == 2        \* longest existing_tasks list given to find_slots_for_date
MaxRangeTasks == 1   \* longest existing_tasks list given to find_free_slots
MaxCandidates == 2   \* longest available_slots list given to find_best_slot_for_task
MaxBatch == 3        \* longest task list given to optimize_task_sequence
MaxSchedule == 3     \* longest schedule given to calculate_schedule_quality

(***************************************************************************)
(* datetime, timedelta, isoformat                                          *)
(***************************************************************************)
MinutesPerDay == 24 * 60

Min(a, b) == IF a <= b THEN a ELSE b

Max(a, b) == IF a >= b THEN a ELSE b

At(day, h, m) == day * MinutesPerDay + h * 60 + m

DayOf(t) == t \div MinutesPerDay

Hour(t) == (t % MinutesPerDay) \div 60

Minute(t) == t % 60

\* date.replace(hour=h, minute=0, second=0)
ReplaceHour(date, h) == DayOf(date) * MinutesPerDay + h * 60

\* datetime.isoformat(): the text "YYYY-MM-DDTHH:MM:SS", held by its fields
IsoFormat(t) == [date |-> DayOf(t), hh |-> Hour(t), mm |-> Minute(t)]

\* datetime.fromisoformat(text)
FromIsoFormat(s) == s.date * MinutesPerDay + s.hh * 60 + s.mm

NoneValue == [some |-> FALSE]

Some(v) == [some |-> TRUE, val |-> v]

Ok(v) == [kind |-> "ok", val |-> v]

Raise(e) == [kind |-> "raise", exc |-> e]

HasKey(d, k) == k \in DOMAIN d

(***************************************************************************)
(* TimeSlot                                                                *)
(***************************************************************************)
TimeSlot(start, end, domain, available, energy_level) ==
    [start |-> start, end |-> end, domain |-> domain,
     available |-> available, energy_level |-> energy_level]

\* int((self.end - self.start).total_seconds() / 60)
duration_minutes(slot) == slot.end - slot.start

to_dict(slot) ==
    [start |-> IsoFormat(slot.start),
     start_time |-> IsoFormat(slot.start),
     end |-> IsoFormat(slot.end),
     domain |-> slot.domain,
     available |-> slot.available,
     duration_minutes |-> duration_minutes(slot),
     energy_level |-> slot.energy_level]

(***************************************************************************)
(* TimeSlotFinder                                                          *)
(***************************************************************************)
\* mutant: the morning period has an energy level off the scale
daily_template_morning_energy_11 ==
    << [name |-> "morning", start_hour |-> 6, end_hour |-> 12,
        domains |-> <<"academic", "income">>, energy_level |-> 11],
       [name |-> "afternoon", start_hour |-> 13, end_hour |-> 18,
        domains |-> <<"income", "growth">>, energy_level |-> 6],
       [name |-> "evening", start_hour |-> 19, end_hour |-> 22,
        domains |-> <<"growth", "life">>, energy_level |-> 4] >>

\* mutant: the evening period starts at 17, inside the afternoon period
daily_template_evening_from_17 ==
    << [name |-> "morning", start_hour |-> 6, end_hour |-> 12,
        domains |-> <<"academic", "income">>, energy_level |-> 8],
       [name |-> "afternoon", start_hour |-> 13, end_hour |-> 18,
        domains |-> <<"income", "growth">>, energy_level |-> 6],
       [name |-> "evening", start_hour |-> 17, end_hour |-> 22,
        domains |-> <<"growth", "life">>, energy_level |-> 4] >>

\* self.daily_template, in the dict's insertion order
daily_template ==
    << [name |-> "morning", start_hour |-> 6, end_hour |-> 12,
        domains |-> <<"academic", "income">>, energy_level |-> 8],
       [name |-> "afternoon", start_hour |-> 13, end_hour |-> 18,
        domains |-> <<"income", "growth">>, energy_level |-> 6],
       [name |-> "evening", start_hour |-> 19, end_hour |-> 22,
        domains |-> <<"growth", "life">>, energy_level |-> 4] >>

\* mutant: the boundaries count as a conflict
TaskConflicts_closed(current, slot_end, task) ==
    LET task_start == FromIsoFormat(task.scheduled_start)
        task_end == FromIsoFormat(task.scheduled_end)
    IN  ~(slot_end < task_start \/ current > task_end)

\* the test of one task against the slot [current, slot_end)
TaskConflicts(current, slot_end, task) ==
    LET task_start == FromIsoFormat(task.scheduled_start)
        task_end == FromIsoFormat(task.scheduled_end)
    IN  ~(slot_end <= task_start \/ current >= task_end)

\* the loop over existing_tasks from index i on: "free", "busy" (break at the
\* first conflict) or "raise" (task["scheduled_start"] or task["scheduled_end"]
\* of a dict without that key)
RECURSIVE ScanTasks(_, _, _, _)
ScanTasks(current, slot_end, tasks, i) ==
    IF i > Len(tasks) THEN "free"
    ELSE IF ~HasKey(tasks[i], "scheduled_start") \/ ~HasKey(tasks[i], "scheduled_end")
         THEN "raise"
    ELSE IF TaskConflicts(current, slot_end, tasks[i]) THEN "busy"
    ELSE ScanTasks(current, slot_end, tasks, i + 1)

\* is_available of the slot, or "raise"
SlotStatus(current, slot_end, existing_tasks) ==
    IF existing_tasks.some /\ Len(existing_tasks.val) > 0
    THEN ScanTasks(current, slot_end, existing_tasks.val, 1)
    ELSE "free"

\* mutant: the afternoon slots take the second affinity of their day-part
HourDomain_afternoon_growth(hour) ==
    IF 6 <= hour /\ hour < 10 THEN "academic"
    ELSE IF 10 <= hour /\ hour < 13 THEN "income"
    ELSE IF 13 <= hour /\ hour < 18 THEN "growth"
    ELSE "life"

\* the hour -> domain rule of the slot
HourDomain(hour) ==
    IF 6 <= hour /\ hour < 10 THEN "academic"
    ELSE IF 10 <= hour /\ hour < 14 THEN "income"
    ELSE IF 14 <= hour /\ hour < 18 THEN "growth"
    ELSE "life"

\* the while loop of one period, from `current` on: the slots appended, and
\* whether the scan of some slot raised (which ends the call)
RECURSIVE SweepPeriod(_, _, _, _)
SweepPeriod(current, end, period_config, existing_tasks) ==
    IF ~(current < end) THEN [raised |-> FALSE, slots |-> <<>>]
    ELSE LET slot_end == Min(current + 30, end)
             status == SlotStatus(current, slot_end, existing_tasks)
             rest == SweepPeriod(slot_end, end, period_config, existing_tasks)
         IN  IF status = "raise" THEN [raised |-> TRUE, slots |-> <<>>]
             ELSE [raised |-> rest.raised,
                   slots |-> << TimeSlot(current, slot_end, HourDomain(Hour(current)),
                                         status = "free", period_config.energy_level) >>
                             \o rest.slots]

\* the for loop over the template, from period i on
RECURSIVE SweepTemplate(_, _, _)
SweepTemplate(date, existing_tasks, i) ==
    IF i > Len(daily_template) THEN [raised |-> FALSE, slots |-> <<>>]
    ELSE LET period_config == daily_template[i]
             start == ReplaceHour(date, period_config.start_hour)
             end == ReplaceHour(date, period_config.end_hour)
             swept == SweepPeriod(start, end, period_config, existing_tasks)
             rest == SweepTemplate(date, existing_tasks, i + 1)
         IN  IF swept.raised THEN [raised |-> TRUE, slots |-> <<>>]
             ELSE [raised |-> rest.raised, slots |-> swept.slots \o rest.slots]

\* a filtering loop or comprehension over seq from index i on: the elements
\* at the indices in keep, order kept
RECURSIVE SelectFrom(_, _, _)
SelectFrom(seq, keep, i) ==
    IF i > Len(seq) THEN <<>>
    ELSE (IF i \in keep THEN << seq[i] >> ELSE <<>>) \o SelectFrom(seq, keep, i + 1)

\* the slot passes both `continue` tests
NotMealTime(slot) == Hour(slot.start) # 12 /\ Hour(slot.start) # 18

_exclude_meal_times(slots) ==
    SelectFrom(slots, {i \in 1..Len(slots) : NotMealTime(slots[i])}, 1)

find_slots_for_date(date, existing_tasks) ==
    LET swept == SweepTemplate(date, existing_tasks, 1)
    IN  IF swept.raised THEN Raise("KeyError")
        ELSE Ok(_exclude_meal_times(swept.slots))

\* mutant: x goes in front of the indices of equal key
RECURSIVE InsertDesc_before_equal(_, _, _)
InsertDesc_before_equal(sorted, keys, x) ==
    IF sorted = <<>> THEN << x >>
    ELSE IF keys[sorted[1]] > keys[x]
         THEN << sorted[1] >> \o InsertDesc_before_equal(Tail(sorted), keys, x)
         ELSE << x >> \o sorted

\* list.sort(key=..., reverse=True) on the list whose i-th element has key
\* keys[i]: stable, so elements of equal key keep their order.  The sort is
\* by insertion and yields the indices in sorted order; InsertDesc puts index
\* x behind every index whose key is >= its own.
RECURSIVE InsertDesc(_, _, _)
InsertDesc(sorted, keys, x) ==
    IF sorted = <<>> THEN << x >>
    ELSE IF keys[sorted[1]] >= keys[x]
         THEN << sorted[1] >> \o InsertDesc(Tail(sorted), keys, x)
         ELSE << x >> \o sorted

RECURSIVE SortDescFrom(_, _, _)
SortDescFrom(keys, i, sorted) ==
    IF i > Len(keys) THEN sorted
    ELSE SortDescFrom(keys, i + 1, InsertDesc(sorted, keys, i))

SortDesc(seq, keys) ==
    LET order == SortDescFrom(keys, 1, <<>>)
    IN  [k \in 1..Len(seq) |-> seq[order[k]]]

\* lo <= num/den and num/den <= hi for the float quotient num/den (den # 0),
\* lo and hi given in tenths; exact for the integers of the model
QuotientAtLeast(num, den, tenths) ==
    IF den > 0 THEN tenths * den <= 10 * num ELSE tenths * den >= 10 * num

QuotientAtMost(num, den, tenths) ==
    IF den > 0 THEN 10 * num <= tenths * den ELSE 10 * num >= tenths * den

QuotientBelow(num, den, tenths) == ~QuotientAtLeast(num, den, tenths)

\* mutant: the requested domain earns nothing
SlotScore_no_domain_match(slot, task_duration, domain, priority) ==
    (IF priority >= 4 /\ slot.energy_level >= 7 THEN 5
     ELSE IF priority <= 2 /\ slot.energy_level <= 5 THEN 3
     ELSE 0)
    + (IF QuotientAtLeast(task_duration, duration_minutes(slot), 8)
          /\ QuotientAtMost(task_duration, duration_minutes(slot), 10) THEN 8
       ELSE IF QuotientAtLeast(task_duration, duration_minutes(slot), 6)
               /\ QuotientBelow(task_duration, duration_minutes(slot), 8) THEN 5
       ELSE 0)

\* the score of one suitable slot
SlotScore(slot, task_duration, domain, priority) ==
    (IF slot.domain = domain THEN 10 ELSE 0)
    + (IF priority >= 4 /\ slot.energy_level >= 7 THEN 5
       ELSE IF priority <= 2 /\ slot.energy_level <= 5 THEN 3
       ELSE 0)
    + (IF QuotientAtLeast(task_duration, duration_minutes(slot), 8)
          /\ QuotientAtMost(task_duration, duration_minutes(slot), 10) THEN 8
       ELSE IF QuotientAtLeast(task_duration, duration_minutes(slot), 6)
               /\ QuotientBelow(task_duration, duration_minutes(slot), 8) THEN 5
       ELSE 0)

\* mutant: the filter forgets the length of the slot
SuitableSlots_any_length(task_duration, available_slots) ==
    SelectFrom(available_slots,
               {i \in 1..Len(available_slots) : available_slots[i].available}, 1)

\* mutant: the filter forgets the available flag
SuitableSlots_any_flag(task_duration, available_slots) ==
    SelectFrom(available_slots,
               {i \in 1..Len(available_slots) :
                   duration_minutes(available_slots[i]) >= task_duration}, 1)

\* the slots that pass the filter of find_best_slot_for_task
SuitableSlots(task_duration, available_slots) ==
    SelectFrom(available_slots,
               {i \in 1..Len(available_slots) :
                   /\ available_slots[i].available
                   /\ duration_minutes(available_slots[i]) >= task_duration}, 1)

find_best_slot_for_task(task_duration, domain, available_slots, priority) ==
    LET suitable_slots == SuitableSlots(task_duration, available_slots)
        scores == [i \in 1..Len(suitable_slots) |->
                      SlotScore(suitable_slots[i], task_duration, domain, priority)]
        scored_slots == SortDesc(suitable_slots, scores)
    IN  IF suitable_slots = <<>> THEN Ok(NoneValue)
        \* utilization = task_duration / slot.duration_minutes
        ELSE IF \E i \in 1..Len(suitable_slots) : duration_minutes(suitable_slots[i]) = 0
             THEN Raise("ZeroDivisionError")
        ELSE Ok(Some(scored_slots[1]))

(***************************************************************************)
(* ScheduleOptimizer.find_free_slots                                       *)
(***************************************************************************)
\* mutant: the filter of find_free_slots keeps every slot
IsAvailable_always(slot) == TRUE

\* the test of the comprehension [s for s in daily_slots if s.available]
IsAvailable(slot) == slot.available

RECURSIVE MapToDict(_, _)
MapToDict(slots, i) ==
    IF i > Len(slots) THEN <<>> ELSE << to_dict(slots[i]) >> \o MapToDict(slots, i + 1)

\* the while loop from current_date on: the dicts appended to all_slots, and
\* whether a day's synthesis raised
RECURSIVE FreeSlotsFrom(_, _, _)
FreeSlotsFrom(current_date, end_date, existing_tasks) ==
    IF ~(current_date <= end_date) THEN [raised |-> FALSE, slots |-> <<>>]
    ELSE LET daily_slots == find_slots_for_date(current_date, existing_tasks)
         IN  IF daily_slots.kind = "raise" THEN [raised |-> TRUE, slots |-> <<>>]
             ELSE LET available_slots ==
                          SelectFrom(daily_slots.val,
                                     {i \in 1..Len(daily_slots.val) :
                                         IsAvailable(daily_slots.val[i])}, 1)
                      rest == FreeSlotsFrom(current_date + MinutesPerDay, end_date,
                                            existing_tasks)
                  IN  [raised |-> rest.raised,
                       slots |-> MapToDict(available_slots, 1) \o rest.slots]

find_free_slots(start_date, end_date, existing_tasks) ==
    LET all_slots == FreeSlotsFrom(start_date, end_date, existing_tasks)
    IN  IF all_slots.raised THEN Raise("KeyError") ELSE Ok(all_slots.slots)

(***************************************************************************)
(* ScheduleOptimizer.optimize_task_sequence                                *)
(***************************************************************************)
\* task.get("domain", "life")
DomainOf(item) == IF HasKey(item, "domain") THEN item.domain ELSE "life"

\* x.get("priority", 3)
PriorityOf(task) == IF HasKey(task, "priority") THEN task.priority ELSE 3

\* mutant: the groups are emitted in alphabetical order
domains_order_alphabetical == <<"academic", "growth", "income", "life">>

domains_order == <<"academic", "income", "growth", "life">>

\* domain_groups[domain] after the grouping loop: the tasks of the domain in
\* input order
DomainGroup(tasks, domain) ==
    SelectFrom(tasks, {i \in 1..Len(tasks) : DomainOf(tasks[i]) = domain}, 1)

\* the loop over domains_order from index i on; a domain with no task is not
\* a key of domain_groups and adds nothing
RECURSIVE ConcatGroups(_, _)
ConcatGroups(tasks, i) ==
    IF i > Len(domains_order) THEN <<>>
    ELSE LET group == DomainGroup(tasks, domains_order[i])
         IN  SortDesc(group, [k \in 1..Len(group) |-> PriorityOf(group[k])])
             \o ConcatGroups(tasks, i + 1)

optimize_task_sequence(tasks) ==
    IF Len(tasks) <= 1 THEN Ok(tasks) ELSE Ok(ConcatGroups(tasks, 1))

(***************************************************************************)
(* ScheduleOptimizer.calculate_schedule_quality                            *)
(***************************************************************************)
\* the order of Python's str comparison on the domain codes
StrRank(domain) ==
    CASE domain = "academic" -> 1
      [] domain = "growth" -> 2
      [] domain = "income" -> 3
      [] domain = "life" -> 4
      [] OTHER -> 5

\* the pair in the order of the schedule: a mutant of SortedPair
SortedPair_unsorted(a, b) == <<a, b>>

\* tuple(sorted([a, b]))
SortedPair(a, b) == IF StrRank(a) <= StrRank(b) THEN <<a, b>> ELSE <<b, a>>

\* self.switch_cost
switch_cost ==
    (<<"academic", "income">> :> 10) @@ (<<"academic", "growth">> :> 15)
    @@ (<<"academic", "life">> :> 20) @@ (<<"income", "growth">> :> 10)
    @@ (<<"income", "life">> :> 15) @@ (<<"growth", "life">> :> 10)

\* self.switch_cost.get(cost_key, 15) for one adjacent pair
PairCost(prev_domain, curr_domain) ==
    IF prev_domain # curr_domain
    THEN LET cost_key == SortedPair(prev_domain, curr_domain)
         IN  IF cost_key \in DOMAIN switch_cost THEN switch_cost[cost_key] ELSE 15
    ELSE 0

\* switch_cost_total after the loop for i in range(1, len(schedule)), from i on
RECURSIVE SwitchCostFrom(_, _)
SwitchCostFrom(schedule, i) ==
    IF i > Len(schedule) THEN 0
    ELSE PairCost(DomainOf(schedule[i - 1]), DomainOf(schedule[i]))
         + SwitchCostFrom(schedule, i + 1)

\* item.get("duration_minutes", 0)
DurationOf(item) == IF HasKey(item, "duration_minutes") THEN item.duration_minutes ELSE 0

\* domain_times[domain] after the accumulation loop
RECURSIVE DomainMinutesFrom(_, _, _)
DomainMinutesFrom(schedule, domain, i) ==
    IF i > Len(schedule) THEN 0
    ELSE (IF DomainOf(schedule[i]) = domain THEN DurationOf(schedule[i]) ELSE 0)
         + DomainMinutesFrom(schedule, domain, i + 1)

Abs(x) == IF x >= 0 THEN x ELSE -x

\* mutant: round(num / den, 2) cuts the digits after the hundredths off
Round2_truncating(num, den) == (100 * num) \div den

\* round(num / den, 2) in hundredths, den > 0: Python rounds the float to the
\* nearest hundredth and a tie to the even one.  A tie of the exact quotient is
\* a tie of the float when the quotient is a binary fraction, which it is for
\* the schedules offered here (minutes in multiples of 15, at most
\* MaxSchedule + 1 items).
Round2(num, den) ==
    LET q == (100 * num) \div den
        r == (100 * num) % den
    IN  IF 2 * r < den THEN q
        ELSE IF 2 * r > den THEN q + 1
        ELSE IF q % 2 = 0 THEN q ELSE q + 1

\* the keys of domain_times = {"academic": 0, "income": 0, "growth": 0, "life": 0}
domain_times_keys == {"academic", "income", "growth", "life"}

\* what the scoring of the other schedules would give an empty one: no
\* switch is the best efficiency.  A mutant of empty_schedule_quality.
empty_schedule_quality_scored ==
    [quality_score |-> 50, balance_score |-> 0, efficiency_score |-> 100,
     switch_cost_total |-> 0]

\* the value returned for "if not schedule"
empty_schedule_quality ==
    [quality_score |-> 0, balance_score |-> 0, efficiency_score |-> 0,
     switch_cost_total |-> 0]

\* scores are reported in hundredths: 0.16 is 16
calculate_schedule_quality(schedule) ==
    IF schedule = <<>>
    THEN Ok(empty_schedule_quality)
    \* domain_times[domain] += duration
    ELSE IF \E i \in 1..Len(schedule) : DomainOf(schedule[i]) \notin domain_times_keys
         THEN Raise("KeyError")
    ELSE LET domain_times == [d \in domain_times_keys |->
                                 DomainMinutesFrom(schedule, d, 1)]
             target_minutes == 240
             \* 240 * max(0, 1 - deviation) of one domain
             Balance240(d) == Max(0, target_minutes - Abs(domain_times[d] - target_minutes))
             \* np.mean(balance_scores) = balance_sum / (4 * 240)
             balance_sum == Balance240("academic") + Balance240("income")
                            + Balance240("growth") + Balance240("life")
             balance_den == 4 * target_minutes
             switch_cost_total == SwitchCostFrom(schedule, 2)
             max_switches == Len(schedule) - 1
             max_cost == max_switches * 20
             \* efficiency_score = eff_num / eff_den
             eff_num == IF max_cost > 0 THEN Max(0, max_cost - switch_cost_total) ELSE 1
             eff_den == IF max_cost > 0 THEN max_cost ELSE 1
         IN  Ok([quality_score |->
                     Round2(balance_sum * eff_den + eff_num * balance_den,
                            2 * balance_den * eff_den),
                 balance_score |-> Round2(balance_sum, balance_den),
                 efficiency_score |-> Round2(eff_num, eff_den),
                 switch_cost_total |-> switch_cost_total,
                 domain_distribution |-> domain_times])

(***************************************************************************)
(* The inputs offered to the scheduler.                                    *)
(***************************************************************************)
TimesOfDay == {9 * 60, 17 * 60 + 30}

Dates == {day * MinutesPerDay + tod : day \in 0..MaxDay, tod \in TimesOfDay}

\* instants at which offered tasks start and end: the middle of the first
\* slot of a day and the two slot boundaries that follow
TaskInstants == {At(0, 6, 15), At(0, 6, 30), At(0, 7, 0)}

ScheduledTask(s, e) ==
    [id |-> "t", scheduled_start |-> IsoFormat(s), scheduled_end |-> IsoFormat(e)]

\* scheduled-task dicts: every pair of instants (end <= start included), two
\* tasks that run into day 1 (one of them covers every slot of day 0), and
\* dicts that lack a key
TaskDicts ==
    {ScheduledTask(s, e) : s \in TaskInstants, e \in TaskInstants}
    \cup {ScheduledTask(At(0, 7, 0), At(1, 6, 15)), ScheduledTask(At(0, 6, 15), At(1, 6, 15))}
    \cup {[id |-> "t", scheduled_start |-> IsoFormat(At(0, 6, 15))], [id |-> "t"]}

\* the lengths offered for an existing_tasks list of at most n dicts; -1
\* stands for existing_tasks = None
ListLengths(n) == -1..n

\* the argument existing_tasks for a chosen length and list
OptionalList(k, l) == IF k < 0 THEN NoneValue ELSE Some(l)

\* candidate slots handed to find_best_slot_for_task: synthesized ones, an
\* unavailable one, a 45-minute one and one of no length
SlotPool ==
    { TimeSlot(At(0, 6, 0), At(0, 6, 30), "academic", TRUE, 8),
      TimeSlot(At(0, 6, 30), At(0, 7, 0), "academic", TRUE, 8),
      TimeSlot(At(0, 13, 0), At(0, 13, 30), "income", FALSE, 6),
      TimeSlot(At(0, 14, 0), At(0, 14, 45), "growth", TRUE, 6),
      TimeSlot(At(0, 19, 0), At(0, 19, 30), "life", TRUE, 4),
      TimeSlot(At(0, 10, 0), At(0, 10, 0), "income", TRUE, 8) }

TaskDurations == {0, 25, 30, 40}

Domains == {"academic", "income", "growth", "life"}

Priorities == 1..5

(***************************************************************************)
(* The caller of the slot finder                                           *)
(***************************************************************************)
IdleCall == [op |-> "none"]

\* the first instant of the wall clock
ClockStart == At(0, 9, 0)

InitCaller ==
    /\ pc = "idle"
    /\ call = IdleCall
    /\ ret = Ok(<<>>)
    /\ db = {}
    /\ now = ClockStart
    /\ created = 0

CallFindSlotsForDate ==
    /\ pc = "idle"
    /\ \E date \in Dates, k \in ListLengths(MaxTasks) : \E l \in [1..k -> TaskDicts] :
          LET existing_tasks == OptionalList(k, l)
          IN  /\ call' = [op |-> "find_slots_for_date", date |-> date,
                          existing_tasks |-> existing_tasks]
              /\ ret' = find_slots_for_date(date, existing_tasks)
    /\ pc' = "returned"
    /\ UNCHANGED store

CallFindFreeSlots ==
    /\ pc = "idle"
    /\ \E start_date \in Dates, end_date \in Dates, k \in ListLengths(MaxRangeTasks) :
          \E l \in [1..k -> TaskDicts] :
          LET existing_tasks == OptionalList(k, l)
          IN  /\ call' = [op |-> "find_free_slots", start_date |-> start_date,
                          end_date |-> end_date, existing_tasks |-> existing_tasks]
              /\ ret' = find_free_slots(start_date, end_date, existing_tasks)
    /\ pc' = "returned"
    /\ UNCHANGED store

CallFindBestSlotForTask ==
    /\ pc = "idle"
    /\ \E task_duration \in TaskDurations, domain \in Domains,
          priority \in Priorities, k \in 0..MaxCandidates :
          \E available_slots \in [1..k -> SlotPool] :
          /\ call' = [op |-> "find_best_slot_for_task",
                      task_duration |-> task_duration, domain |-> domain,
                      available_slots |-> available_slots, priority |-> priority]
          /\ ret' = find_best_slot_for_task(task_duration, domain, available_slots,
                                            priority)
    /\ pc' = "returned"
    /\ UNCHANGED store

Return ==
    /\ pc = "returned"
    /\ pc' = "idle"
    /\ call' = IdleCall
    /\ ret' = Ok(<<>>)
    /\ UNCHANGED store

\* task durations of the allowed range 5..480: the length of a slot, just
\* above it, and the longest
PlacedDurations == {30, 31, 480}

\* the selector applied to the slots synthesized for a date
CallFindBestSlotAmongSynthesized ==
    /\ pc = "idle"
    /\ \E date \in Dates, k \in ListLengths(1) : \E l \in [1..k -> TaskDicts] :
          \E existing_tasks \in {OptionalList(k, l)} :
          \E synthesized \in {find_slots_for_date(date, existing_tasks)} :
              /\ synthesized.kind = "ok"
              /\ \E task_duration \in PlacedDurations, domain \in Domains,
                    priority \in Priorities :
                    /\ call' = [op |-> "find_best_slot_for_task",
                                task_duration |-> task_duration, domain |-> domain,
                                available_slots |-> synthesized.val,
                                priority |-> priority, date |-> date,
                                existing_tasks |-> existing_tasks]
                    /\ ret' = find_best_slot_for_task(task_duration, domain,
                                                      synthesized.val, priority)
    /\ pc' = "returned"
    /\ UNCHANGED store

NextSlots ==
    \/ CallFindSlotsForDate
    \/ CallFindFreeSlots
    \/ CallFindBestSlotForTask
    \/ CallFindBestSlotAmongSynthesized
    \/ Return

SpecSlots == InitCaller /\ [][NextSlots]_vars

(***************************************************************************)
(* The caller of the optimizer                                             *)
(***************************************************************************)
DomainValues == Domains \cup {"sleep"}

\* the dicts offered as tasks, before they are numbered: every domain code,
\* the TimeDomain member the optimizer has no group order for, and no domain
\* key; priority 1, 5 or no priority key
TaskShapes ==
    {[domain |-> d, priority |-> p] : d \in DomainValues, p \in {1, 5}}
    \cup {[domain |-> d] : d \in DomainValues}
    \cup {[priority |-> p] : p \in {1, 5}}
    \cup {[title |-> "t"]}

\* the task list of the given shapes, the task at position i carrying id i
Numbered(shapes) == [i \in 1..Len(shapes) |-> shapes[i] @@ [id |-> i]]

ScheduleItems ==
    {[domain |-> d, duration_minutes |-> m] : d \in DomainValues, m \in {30, 240}}
    \cup {[domain |-> "life"], [duration_minutes |-> 30]}

CallOptimizeTaskSequence ==
    /\ pc = "idle"
    /\ \E k \in 0..MaxBatch : \E shapes \in [1..k -> TaskShapes] :
          /\ call' = [op |-> "optimize_task_sequence", tasks |-> Numbered(shapes)]
          /\ ret' = optimize_task_sequence(Numbered(shapes))
    /\ pc' = "returned"
    /\ UNCHANGED store

CallCalculateScheduleQuality ==
    /\ pc = "idle"
    /\ \E k \in 0..MaxSchedule : \E schedule \in [1..k -> ScheduleItems] :
          /\ call' = [op |-> "calculate_schedule_quality", schedule |-> schedule]
          /\ ret' = calculate_schedule_quality(schedule)
    /\ pc' = "returned"
    /\ UNCHANGED store

NextOptimizer ==
    \/ CallOptimizeTaskSequence
    \/ CallCalculateScheduleQuality
    \/ Return

SpecOptimizer == InitCaller /\ [][NextOptimizer]_vars

(***************************************************************************)
(* src/ai/deepseek_agent.py: the agent the endpoints consult.  Whether the *)
(* remote API or the mock answers, and what the API answers, is not        *)
(* decided by the program: every request draws the answers from the sets   *)
(* below.                                                                  *)
(***************************************************************************)
MaxCreated == 2      \* Task objects constructed in one run of the backend
MaxTicks == 1        \* times the wall clock is seen to advance

\* timedelta(days=7), the range the endpoints ask free slots for
HorizonDays == 7

\* task texts a client sends
Texts == {"paper"}

\* domains and durations the agent answers with; "life" and 30 are also the
\* defaults of classify_task and estimate_duration when the answer of the
\* API cannot be parsed.  The endpoints store the domain of a task and never
\* read it, so one domain stands for the four.
ClassifiedDomains == {"life"}

EstimatedMinutes == {30, 60}

\* json.loads(response) in classify_task: a dict, which may lack "domain"
Classifications ==
    {[domain |-> d, confidence |-> "c"] : d \in ClassifiedDomains}
    \cup {[confidence |-> "c"]}

\* json.loads(response) in estimate_duration
Durations == {[estimated_minutes |-> m, confidence |-> "c"] : m \in EstimatedMinutes}

\* TaskProcessor.process_new_task
process_new_task(task_input, classification, duration) ==
    IF ~HasKey(classification, "domain") THEN Raise("KeyError")
    ELSE Ok([title |-> task_input,
             domain |-> classification.domain,
             estimated_minutes |-> duration.estimated_minutes])

\* how the slot prompt is answered: by the mock, by text that json.loads
\* rejects, or by JSON of the API that has "start_time": null or that has
\* no "start_time" at all
SlotAnswers == {"mock", "unparsable", "null", "no_start_time"}

\* _mock_api_response for a prompt that contains the word for time slot:
\* datetime.now().replace(hour=14, minute=0).isoformat()
MockSlotAnswer(clock) ==
    [slot_index |-> 0, start_time |-> Some(IsoFormat(ReplaceHour(clock, 14)))]

\* DeepSeekAgent.find_optimal_slot
find_optimal_slot(available_slots, answer, clock) ==
    IF answer = "unparsable"
    THEN IF Len(available_slots) = 0
         THEN [slot_index |-> 0, start_time |-> NoneValue]
         ELSE [slot_index |-> 0, start_time |-> Some(available_slots[1].start)]
    ELSE IF answer = "mock" THEN MockSlotAnswer(clock)
    ELSE IF answer = "no_start_time" THEN [slot_index |-> 0]
    ELSE [slot_index |-> 0, start_time |-> NoneValue]

(***************************************************************************)
(* backend/main.py: the tasks table and the endpoints that write it        *)
(***************************************************************************)
\* a row of the tasks table (core/models.py Task), by the columns of the
\* scheduling view of a task
Task(id, title, domain, priority, estimated_minutes) ==
    [id |-> id, title |-> title, domain |-> domain,
     priority |-> priority, estimated_minutes |-> estimated_minutes,
     scheduled_start |-> NoneValue, scheduled_end |-> NoneValue]

\* the id f"task_{datetime.now().timestamp()}" of the next Task: timestamps
\* of successive constructions differ, and are held by their rank
NextId(k) == created + k

\* raise HTTPException(status_code=...)
HTTPError(status_code) ==
    [kind |-> "raise", exc |-> "HTTPException", status_code |-> status_code]

\* what an endpoint leaves behind: its response, the table, the constructions
Outcome(response, rows, count) == [response |-> response, db |-> rows, created |-> count]

\* an endpoint that raised: nothing is committed
Failed(status_code) == Outcome(HTTPError(status_code), db, created)

\* t.scheduled_start.isoformat() if t.scheduled_start else None
IsoOrNone(t) == IF t.some THEN Some(IsoFormat(t.val)) ELSE NoneValue

\* the task of a response body
TaskView(task) ==
    [id |-> task.id, estimated_minutes |-> task.estimated_minutes,
     scheduled_start |-> IsoOrNone(task.scheduled_start)]

\* the slot assignment shared by quick_add_task (l.114-128) and
\* ai_process_tasks (l.205-219, l.266-279); quick_add_task reads
\* optimal_slot["start_time"], ai_process_tasks optimal_slot.get("start_time")
AssignSlot(task, available_slots, offered_slots, answer, subscript) ==
    IF Len(available_slots) = 0 THEN Ok(task)
    ELSE LET optimal_slot == find_optimal_slot(offered_slots, answer, now)
         IN  IF ~HasKey(optimal_slot, "start_time")
             THEN IF subscript THEN Raise("KeyError") ELSE Ok(task)
             ELSE IF ~optimal_slot.start_time.some THEN Ok(task)
             ELSE LET scheduled_start == FromIsoFormat(optimal_slot.start_time.val)
                  IN  Ok([task EXCEPT
                            !.scheduled_start = Some(scheduled_start),
                            !.scheduled_end =
                                Some(scheduled_start + task.estimated_minutes)])

\* available_slots[:5]
FirstFive(available_slots) == SubSeq(available_slots, 1, Min(5, Len(available_slots)))

\* find_free_slots(datetime.now(), datetime.now() + timedelta(days=7))
FreeSlotsAhead(clock) ==
    find_free_slots(clock, clock + HorizonDays * MinutesPerDay, NoneValue)

\* POST /api/tasks/quick-add; free_slots is what the call of l.109 returned
quick_add_task(request, classification, duration, answer, free_slots) ==
    LET task_input == IF HasKey(request, "task_input") THEN request.task_input ELSE ""
    IN  IF task_input = "" THEN Failed(500)   \* the 400 of l.92 is caught at l.152
        ELSE LET processed == process_new_task(task_input, classification, duration)
             IN  IF processed.kind = "raise" \/ free_slots.kind = "raise" THEN Failed(500)
                 ELSE LET task == Task(NextId(1), processed.val.title,
                                       processed.val.domain, 3,
                                       processed.val.estimated_minutes)
                          assigned == AssignSlot(task, free_slots.val, free_slots.val,
                                                 answer, TRUE)
                      IN  IF assigned.kind = "raise" THEN Failed(500)
                          ELSE Outcome(Ok([success |-> TRUE,
                                           task |-> TaskView(assigned.val)]),
                                       db \cup {assigned.val}, created + 1)

MaxLines == 2        \* most segments of a text sent to ai_process_tasks

Range(seq) == {seq[i] : i \in 1..Len(seq)}

\* request.get("input", ""): a text is held by the sequence of its segments
\* between ";" separators, each stripped; << "" >> is the empty text
InputSegments(request) == IF HasKey(request, "input") THEN request.input ELSE << "" >>

\* the lines kept by the loop of l.175-178
NonEmptyLines(segments) == SelectSeq(segments, LAMBDA line : line # "")

\* DeepSeekAgent.batch_process_tasks: one entry per task of the list; an
\* answer of the API may lack "index".  (The mock also answers with entries
\* for the bulleted lines of its own prompt; the answers drawn here are those
\* with one entry per task.)
batch_process_tasks(tasks, domain, minutes, indexed) ==
    [i \in 1..Len(tasks) |->
        IF indexed
        THEN [index |-> i - 1, title |-> tasks[i], domain |-> domain,
              estimated_minutes |-> minutes[i], priority |-> 3]
        ELSE [title |-> tasks[i], domain |-> domain,
              estimated_minutes |-> minutes[i], priority |-> 3]]

\* the loop of l.187-222 from entry i on: the Task objects added to the
\* session, or the KeyError of task_data['index']
RECURSIVE ScheduleBatch(_, _, _, _)
ScheduleBatch(processed_tasks, answers, free_slots, i) ==
    IF i > Len(processed_tasks) THEN Ok(<<>>)
    ELSE IF ~HasKey(processed_tasks[i], "index") \/ free_slots.kind = "raise"
         THEN Raise("KeyError")
    ELSE LET task_data == processed_tasks[i]
             task == Task(NextId(i), task_data.title, task_data.domain,
                          task_data.priority, task_data.estimated_minutes)
             assigned == AssignSlot(task, free_slots.val, FirstFive(free_slots.val),
                                    answers[i], FALSE)
             rest == ScheduleBatch(processed_tasks, answers, free_slots, i + 1)
         IN  IF rest.kind = "raise" THEN rest
             ELSE Ok(<< assigned.val >> \o rest.val)

\* the batch branch of POST /api/tasks/ai-process (l.171-245)
ai_process_batch(segments, domain, minutes, indexed, answers, free_slots) ==
    LET tasks == NonEmptyLines(segments)
    IN  IF Len(tasks) = 0 THEN Failed(500)   \* the 400 of l.181 is caught at l.304
        ELSE LET processed_tasks == batch_process_tasks(tasks, domain, minutes, indexed)
                 created_tasks == ScheduleBatch(processed_tasks, answers, free_slots, 1)
             IN  IF created_tasks.kind = "raise" THEN Failed(500)
                 ELSE Outcome(Ok([success |-> TRUE,
                                  count |-> Len(created_tasks.val),
                                  tasks |-> [i \in 1..Len(created_tasks.val) |->
                                                TaskView(created_tasks.val[i])]]),
                              db \cup Range(created_tasks.val),
                              created + Len(created_tasks.val))

\* the single-task branch of POST /api/tasks/ai-process (l.246-302)
ai_process_single(task_input, classification, duration, answer, free_slots) ==
    LET processed == process_new_task(task_input, classification, duration)
    IN  IF processed.kind = "raise" \/ free_slots.kind = "raise" THEN Failed(500)
        ELSE LET task == Task(NextId(1), processed.val.title, processed.val.domain,
                              3, processed.val.estimated_minutes)
                 assigned == AssignSlot(task, free_slots.val, FirstFive(free_slots.val),
                                        answer, FALSE)
             IN  Outcome(Ok([success |-> TRUE, count |-> 1,
                             tasks |-> << TaskView(assigned.val) >>]),
                         db \cup {assigned.val}, created + 1)

\* POST /api/tasks/ai-process
ai_process_tasks(request, classification, duration, domain, minutes, indexed, answers, free_slots) ==
    LET segments == InputSegments(request)
    IN  IF segments = << "" >> THEN Failed(500)   \* the 400 of l.168 is caught at l.304
        ELSE IF Len(segments) > 1
             THEN ai_process_batch(segments, domain, minutes, indexed, answers, free_slots)
        ELSE ai_process_single(segments[1], classification, duration, answers[1],
                               free_slots)

\* POST /api/tasks/batch-add: the tasks of the agent's answer enter the pool
\* without a slot
batch_add_tasks(request, domain, minutes, indexed) ==
    LET tasks == IF HasKey(request, "tasks") THEN request.tasks ELSE <<>>
    IN  IF Len(tasks) = 0 THEN Failed(500)   \* the 400 of l.321 is caught at l.360
        ELSE IF ~indexed THEN Failed(500)    \* KeyError of task_data['index']
        ELSE LET processed_tasks == batch_process_tasks(tasks, domain, minutes, indexed)
                 created_tasks ==
                     [i \in 1..Len(processed_tasks) |->
                         Task(NextId(i), processed_tasks[i].title,
                              processed_tasks[i].domain,
                              processed_tasks[i].priority,
                              processed_tasks[i].estimated_minutes)]
             IN  Outcome(Ok([success |-> TRUE, created |-> Len(created_tasks)]),
                         db \cup Range(created_tasks), created + Len(created_tasks))

\* task_data.get(k, default)
GetOr(d, k, default) == IF HasKey(d, k) THEN d[k] ELSE default

\* datetime.fromisoformat(d[k]) if d.get(k) else None
ParsedOrNone(d, k) ==
    IF HasKey(d, k) /\ d[k].some THEN Some(FromIsoFormat(d[k].val)) ELSE NoneValue

\* POST /api/tasks
create_task(task_data) ==
    LET task == [Task(NextId(1), GetOr(task_data, "title", ""),
                      GetOr(task_data, "domain", "life"),
                      GetOr(task_data, "priority", 3),
                      GetOr(task_data, "estimated_minutes", 30))
                 EXCEPT !.scheduled_start = ParsedOrNone(task_data, "scheduled_start"),
                        !.scheduled_end = ParsedOrNone(task_data, "scheduled_end")]
    IN  Outcome(Ok([success |-> TRUE, task |-> TaskView(task)]),
                db \cup {task}, created + 1)

\* DELETE /api/tasks/{task_id}
delete_task(task_id) ==
    IF \A t \in db : t.id # task_id THEN Failed(404)
    ELSE LET task == CHOOSE t \in db : t.id = task_id
         IN  Outcome(Ok([success |-> TRUE]), db \ {task}, created)

\* PATCH /api/tasks/{task_id}: setattr(task, field, value) for every allowed
\* field of the request, the scheduled_* values parsed unless they are null
update_task(task_id, request) ==
    IF \A t \in db : t.id # task_id THEN Failed(404)
    ELSE LET task == CHOOSE t \in db : t.id = task_id
             updated ==
                 [task EXCEPT
                    !.title = GetOr(request, "title", @),
                    !.domain = GetOr(request, "domain", @),
                    !.priority = GetOr(request, "priority", @),
                    !.estimated_minutes = GetOr(request, "estimated_minutes", @),
                    !.scheduled_start =
                        IF HasKey(request, "scheduled_start")
                        THEN ParsedOrNone(request, "scheduled_start") ELSE @,
                    !.scheduled_end =
                        IF HasKey(request, "scheduled_end")
                        THEN ParsedOrNone(request, "scheduled_end") ELSE @]
         IN  Outcome(Ok([success |-> TRUE, task |-> TaskView(updated)]),
                     (db \ {task}) \cup {updated}, created)

\* the loop of l.560-564 from item i on: the rows of `tasks` as the items
\* reschedule them, or the KeyError of an item that lacks a key
RECURSIVE ApplySchedule(_, _, _)
ApplySchedule(tasks, items, i) ==
    IF i > Len(items) THEN Ok(tasks)
    ELSE IF ~HasKey(items[i], "task_id") THEN Raise("KeyError")
    ELSE IF \A t \in tasks : t.id # items[i].task_id
         THEN ApplySchedule(tasks, items, i + 1)
    ELSE IF ~HasKey(items[i], "start_time") \/ ~HasKey(items[i], "end_time")
         THEN Raise("KeyError")
    ELSE LET task == CHOOSE t \in tasks : t.id = items[i].task_id
             moved == [task EXCEPT
                         !.scheduled_start = Some(FromIsoFormat(items[i].start_time)),
                         !.scheduled_end = Some(FromIsoFormat(items[i].end_time))]
         IN  ApplySchedule((tasks \ {task}) \cup {moved}, items, i + 1)

\* POST /api/schedule/optimize; schedule is what generate_daily_schedule
\* returned
optimize_schedule(task_ids, schedule) ==
    LET tasks == {t \in db : t.id \in task_ids}
    IN  IF tasks = {} THEN Failed(500)   \* the 404 of l.533 is caught at l.574
        ELSE LET applied == ApplySchedule(tasks, GetOr(schedule, "schedule", <<>>), 1)
             IN  IF applied.kind = "raise" THEN Failed(500)
                 ELSE Outcome(Ok([success |-> TRUE]),
                              (db \ tasks) \cup applied.val, created)

(***************************************************************************)
(* The clients of the backend                                              *)
(***************************************************************************)
\* the clock is seen every six hours
ClockStep == 6 * 60

ClockValues == {ClockStart + k * ClockStep : k \in 0..MaxTicks}

\* the free slots the endpoints are given at each instant of the clock
FreeSlotsAt == [clock \in ClockValues |-> FreeSlotsAhead(clock)]

QuickAddRequests == {[task_input |-> t] : t \in Texts \cup {""}} \cup {[source |-> "web"]}

AiProcessRequests ==
    {[input |-> << t >>] : t \in Texts \cup {""}}
    \cup {[input |-> << s, t >>] : s \in Texts \cup {""}, t \in Texts \cup {""}}
    \cup {[source |-> "web"]}

BatchAddRequests ==
    {[tasks |-> l] : l \in UNION {[1..k -> Texts] : k \in 0..MaxLines}}
    \cup {[source |-> "web"]}

CreateRequests ==
    {[title |-> "paper"]}
    \cup {[title |-> "paper", estimated_minutes |-> 30,
           scheduled_start |-> Some(IsoFormat(At(0, 6, 0))),
           scheduled_end |-> Some(IsoFormat(e))] : e \in {At(0, 6, 30), At(0, 7, 0)}}
    \cup {[title |-> "paper", scheduled_start |-> Some(IsoFormat(At(0, 6, 0)))]}

UpdateRequests ==
    {[estimated_minutes |-> 60], [owner |-> "me"],
     [scheduled_start |-> NoneValue],
     [scheduled_start |-> Some(IsoFormat(At(0, 6, 30)))]}

TaskIds == 1..MaxCreated

\* json.loads(response) in generate_daily_schedule: the mock answers the
\* prompt with its batch JSON, which has no "schedule"; the API may answer
\* with a schedule, whose items may lack keys
ScheduleAnswers ==
    {[tasks |-> <<>>]}
    \cup {[schedule |-> << [task_id |-> id, start_time |-> IsoFormat(At(0, 6, 0)),
                            end_time |-> IsoFormat(e)] >>] :
              id \in TaskIds, e \in {At(0, 6, 30), At(0, 7, 0)}}
    \cup {[schedule |-> << [task_id |-> id] >>] : id \in TaskIds}

\* the endpoint has run: its response and what it committed
Responded(op, request, outcome) ==
    /\ outcome.created <= MaxCreated
    /\ pc' = "returned"
    /\ call' = [op |-> op, request |-> request]
    /\ ret' = outcome.response
    /\ db' = outcome.db
    /\ created' = outcome.created
    /\ UNCHANGED now

QuickAddTask ==
    /\ pc = "idle"
    /\ \E request \in QuickAddRequests, classification \in Classifications,
          duration \in Durations, answer \in SlotAnswers :
          Responded("quick_add_task", request,
                    quick_add_task(request, classification, duration, answer,
                                   FreeSlotsAt[now]))

AiProcessTasks ==
    /\ pc = "idle"
    /\ \E request \in AiProcessRequests, answers \in [1..MaxLines -> SlotAnswers],
          minutes \in [1..MaxLines -> EstimatedMinutes] :
          IF Len(InputSegments(request)) > 1
          THEN \E domain \in ClassifiedDomains, indexed \in BOOLEAN :
                  Responded("ai_process_tasks", request,
                            ai_process_tasks(request, [domain |-> domain],
                                             [estimated_minutes |-> minutes[1]],
                                             domain, minutes, indexed, answers,
                                             FreeSlotsAt[now]))
          ELSE \E classification \in Classifications :
                  Responded("ai_process_tasks", request,
                            ai_process_tasks(request, classification,
                                             [estimated_minutes |-> minutes[1]],
                                             "life", minutes, TRUE, answers,
                                             FreeSlotsAt[now]))

BatchAddTasks ==
    /\ pc = "idle"
    /\ \E request \in BatchAddRequests, domain \in ClassifiedDomains,
          minutes \in [1..MaxLines -> EstimatedMinutes], indexed \in BOOLEAN :
          Responded("batch_add_tasks", request,
                    batch_add_tasks(request, domain, minutes, indexed))

CreateTask ==
    /\ pc = "idle"
    /\ \E task_data \in CreateRequests :
          Responded("create_task", task_data, create_task(task_data))

UpdateTask ==
    /\ pc = "idle"
    /\ \E task_id \in TaskIds, request \in UpdateRequests :
          Responded("update_task", [task_id |-> task_id, body |-> request],
                    update_task(task_id, request))

DeleteTask ==
    /\ pc = "idle"
    /\ \E task_id \in TaskIds :
          Responded("delete_task", [task_id |-> task_id], delete_task(task_id))

OptimizeSchedule ==
    /\ pc = "idle"
    /\ \E task_ids \in SUBSET TaskIds, schedule \in ScheduleAnswers :
          Responded("optimize_schedule", [task_ids |-> task_ids],
                    optimize_schedule(task_ids, schedule))

\* time passes
Tick ==
    /\ pc = "idle"
    /\ now + ClockStep \in ClockValues
    /\ now' = now + ClockStep
    /\ UNCHANGED <<pc, call, ret, db, created>>

NextBackend ==
    \/ QuickAddTask
    \/ AiProcessTasks
    \/ BatchAddTasks
    \/ CreateTask
    \/ UpdateTask
    \/ DeleteTask
    \/ OptimizeSchedule
    \/ Tick
    \/ Return

SpecBackend == InitCaller /\ [][NextBackend]_vars

(***************************************************************************)
(* api/index.py: the keyword heuristics of TaskService.  A text is the     *)
(* sequence of its characters; a Chinese character is written by its       *)
(* pinyin, with a digit where two characters share one.                    *)
(***************************************************************************)
\*   bao U+62A5      bei U+5907      cheng U+7A0B    cheng2 U+6210   chuang U+521B
\*   da U+6253       dian U+7535     du U+8BFB       duan U+953B     fen U+5206
\*   fu U+590D       gao U+544A      gong U+5DE5     hu U+6237       hua U+8BDD
\*   hui U+4F1A      hui2 U+56DE     ji U+6280       ji2 U+6025      ji3 U+5373
\*   jian U+4EF6     jin U+4ECA      jin2 U+7D27     jin3 U+5C3D     jiu U+7A76
\*   kao U+8003      ke U+8BFE       ke2 U+5BA2      ke3 U+53EF      kong U+7A7A
\*   kuai U+5FEB     li U+7ACB       li2 U+7406      lian U+70BC     lian2 U+7EC3
\*   lian3 U+8054    lun U+8BBA      ma U+9A6C       mian U+9762     mu U+76EE
\*   neng U+80FD     qian U+94B1     ri U+65E5       ru U+5165       shang U+4E0A
\*   sheng U+5347    shi U+8BD5      shi2 U+65F6     shou U+6536     shu U+672F
\*   shu2 U+4E66     tao U+8BA8      ti U+63D0       tian U+5929     wen U+6587
\*   wo U+63E1       wu U+52A1       xi U+4E60       xi2 U+7CFB      xi3 U+6790
\*   xian U+95F2     xiang U+9879    xie U+5199      xuan U+9009     xue U+5B66
\*   yan U+7814      yao U+8981      ye U+4E1A       yi U+8BAE       you U+6709
\*   you2 U+90AE     yue U+9605      zhang U+957F    zhang2 U+638C   zheng U+6574
\*   zhong U+91CD    zhuan U+8D5A    zhun U+51C6     zuo U+4F5C

MaxTextLen == 4      \* longest text built from an alphabet

\* str.lower() of one character: only Latin capitals change
LowerChar(ch) == IF ch = "A" THEN "a" ELSE ch

\* text.lower()
lower(text) == [i \in 1..Len(text) |-> LowerChar(text[i])]

\* keyword in text
Contains(text, keyword) ==
    \E i \in 1..(Len(text) - Len(keyword) + 1) :
        SubSeq(text, i, i + Len(keyword) - 1) = keyword

\* any(word in text for word in words)
AnyIn(words, text) == \E word \in words : Contains(text, word)

\* mutant: the academic boost is the one of income
domain_configs_academic_2 ==
    [academic |-> [priority_boost |-> 2], income |-> [priority_boost |-> 2],
     growth |-> [priority_boost |-> 0], life |-> [priority_boost |-> 0]]

\* self.domain_configs, by the field the heuristics read
domain_configs ==
    [academic |-> [priority_boost |-> 1], income |-> [priority_boost |-> 2],
     growth |-> [priority_boost |-> 0], life |-> [priority_boost |-> 0]]

\* study, research, paper, course, academic, read books, review, exam
academic_keywords ==
    {<<"xue", "xi">>, <<"yan", "jiu">>, <<"lun", "wen">>, <<"ke", "cheng">>,
     <<"xue", "shu">>, <<"du", "shu2">>, <<"fu", "xi">>, <<"kao", "shi">>}

\* work, earn money, income, project, client, business, meeting, report
income_keywords ==
    {<<"gong", "zuo">>, <<"zhuan", "qian">>, <<"shou", "ru">>, <<"xiang", "mu">>,
     <<"ke2", "hu">>, <<"ye", "wu">>, <<"hui", "yi">>, <<"bao", "gao">>}

\* exercise, reading, skill, growth, practice, improve, learn to, master
growth_keywords ==
    {<<"duan", "lian">>, <<"yue", "du">>, <<"ji", "neng">>, <<"cheng2", "zhang">>,
     <<"lian2", "xi">>, <<"ti", "sheng">>, <<"xue", "hui">>, <<"zhang2", "wo">>}

\* mutant: the income keywords are tried first
_classify_domain_income_first(text) ==
    LET text_lower == lower(text)
    IN  IF AnyIn(income_keywords, text_lower) THEN "income"
        ELSE IF AnyIn(academic_keywords, text_lower) THEN "academic"
        ELSE IF AnyIn(growth_keywords, text_lower) THEN "growth"
        ELSE "life"

\* TaskService._classify_domain
_classify_domain(text) ==
    LET text_lower == lower(text)
    IN  IF AnyIn(academic_keywords, text_lower) THEN "academic"
        ELSE IF AnyIn(income_keywords, text_lower) THEN "income"
        ELSE IF AnyIn(growth_keywords, text_lower) THEN "growth"
        ELSE "life"

\* the words of base priority 1: urgent, important, immediately, at once
urgent_words ==
    {<<"jin2", "ji2">>, <<"zhong", "yao">>, <<"li", "ji3">>, <<"ma", "shang">>}

\* the words of base priority 2: today, this day, as soon as possible
today_words ==
    {<<"jin", "tian">>, <<"jin", "ri">>, <<"jin3", "kuai">>}

\* the words of base priority 4: when free, in idle time, optional
spare_words ==
    {<<"you", "kong">>, <<"xian", "shi2">>, <<"ke3", "xuan">>}

\* self.domain_configs.get(domain, {}).get("priority_boost", 0)
PriorityBoost(domain) ==
    IF domain \in DOMAIN domain_configs THEN domain_configs[domain].priority_boost ELSE 0

\* mutant: the result is not clamped from below
_estimate_priority_no_floor(text, domain) ==
    LET base_priority ==
            IF AnyIn(urgent_words, lower(text)) THEN 1
            ELSE IF AnyIn(today_words, lower(text)) THEN 2
            ELSE IF AnyIn(spare_words, lower(text)) THEN 4
            ELSE 3
    IN  Min(5, base_priority - PriorityBoost(domain))

\* TaskService._estimate_priority
_estimate_priority(text, domain) ==
    LET base_priority ==
            IF AnyIn(urgent_words, lower(text)) THEN 1
            ELSE IF AnyIn(today_words, lower(text)) THEN 2
            ELSE IF AnyIn(spare_words, lower(text)) THEN 4
            ELSE 3
        domain_boost == PriorityBoost(domain)
    IN  Max(1, Min(5, base_priority - domain_boost))

\* the words that add 15 minutes: write, create, organize, analyze
writing_words ==
    {<<"xie">>, <<"chuang", "zuo">>, <<"zheng", "li2">>, <<"fen", "xi3">>}

\* the words that take 15 minutes off: reply, contact, phone
reply_words ==
    {<<"hui2", "fu">>, <<"lian3", "xi2">>, <<"da", "dian", "hua">>}

\* the words that add 30 minutes: meeting, discuss, interview
meeting_words ==
    {<<"hui", "yi">>, <<"tao", "lun">>, <<"mian", "shi">>}

\* the dict of base durations, and its .get(domain, 30)
base_duration_table == [academic |-> 60, income |-> 45, growth |-> 40, life |-> 30]

BaseDuration(domain) ==
    IF domain \in DOMAIN base_duration_table THEN base_duration_table[domain] ELSE 30

\* mutant: the reply words are tried before the writing words
_estimate_duration_reply_first(text, domain) ==
    LET base_duration == BaseDuration(domain)
    IN  IF AnyIn(reply_words, lower(text)) THEN Max(15, base_duration - 15)
        ELSE IF AnyIn(writing_words, lower(text)) THEN base_duration + 15
        ELSE IF AnyIn(meeting_words, lower(text)) THEN base_duration + 30
        ELSE base_duration

\* TaskService._estimate_duration
_estimate_duration(text, domain) ==
    LET base_duration == BaseDuration(domain)
    IN  IF AnyIn(writing_words, lower(text)) THEN base_duration + 15
        ELSE IF AnyIn(reply_words, lower(text)) THEN Max(15, base_duration - 15)
        ELSE IF AnyIn(meeting_words, lower(text)) THEN base_duration + 30
        ELSE base_duration

\* the fields TaskService.ai_process_tasks computes for one line (l.127-129)
HeuristicFields(line) ==
    LET domain == _classify_domain(line)
    IN  [domain |-> domain,
         priority |-> _estimate_priority(line, domain),
         estimated_minutes |-> _estimate_duration(line, domain)]

(***************************************************************************)
(* The caller of the heuristics                                            *)
(***************************************************************************)
\* characters of the texts given to each heuristic: they spell keywords of
\* two domains that share a character, the words of the three priority
\* rules, and the words of the three duration rules
DomainChars == {"xue", "xi", "hui", "yi", "A"}

PriorityChars == {"jin2", "ji2", "jin", "tian", "you", "kong"}

DurationChars == {"xie", "hui2", "fu", "hui", "yi"}

\* "write the paper and prepare for the exam"
PaperExamText == <<"xie", "lun", "wen", "zhun", "bei", "kao", "shi">>

\* "reply to the mail"
ReplyMailText == <<"hui2", "fu", "you2", "jian">>

ScenarioTexts == {PaperExamText, ReplyMailText}

Called(op, args, result) ==
    /\ pc' = "returned"
    /\ call' = [op |-> op, args |-> args]
    /\ ret' = Ok(result)
    /\ UNCHANGED store

CallClassifyDomain ==
    /\ pc = "idle"
    /\ \/ \E k \in 0..MaxTextLen : \E text \in [1..k -> DomainChars] :
             Called("_classify_domain", [text |-> text], _classify_domain(text))
       \/ \E text \in ScenarioTexts :
             Called("_classify_domain", [text |-> text], _classify_domain(text))

CallEstimatePriority ==
    /\ pc = "idle"
    /\ \E domain \in DomainValues :
          \/ \E k \in 0..MaxTextLen : \E text \in [1..k -> PriorityChars] :
                Called("_estimate_priority", [text |-> text, domain |-> domain],
                       _estimate_priority(text, domain))
          \/ \E text \in ScenarioTexts :
                Called("_estimate_priority", [text |-> text, domain |-> domain],
                       _estimate_priority(text, domain))

CallEstimateDuration ==
    /\ pc = "idle"
    /\ \E domain \in DomainValues :
          \/ \E k \in 0..MaxTextLen : \E text \in [1..k -> DurationChars] :
                Called("_estimate_duration", [text |-> text, domain |-> domain],
                       _estimate_duration(text, domain))
          \/ \E text \in ScenarioTexts :
                Called("_estimate_duration", [text |-> text, domain |-> domain],
                       _estimate_duration(text, domain))

CallHeuristicFields ==
    /\ pc = "idle"
    /\ \/ \E k \in 0..MaxTextLen : \E line \in [1..k -> DurationChars] :
             Called("heuristic_fields", [text |-> line], HeuristicFields(line))
       \/ \E line \in ScenarioTexts :
             Called("heuristic_fields", [text |-> line], HeuristicFields(line))

NextHeuristics ==
    \/ CallClassifyDomain
    \/ CallEstimatePriority
    \/ CallEstimateDuration
    \/ CallHeuristicFields
    \/ Return

SpecHeuristics == InitCaller /\ [][NextHeuristics]_vars

(***************************************************************************)
(* src/main.py: the in-memory service.  tasks_db is a list, held in db as  *)
(* a sequence; created counts the uuid4 identifiers drawn, and a task's id *)
(* is the rank of its draw.  created_at and actual_minutes, which no       *)
(* operation reads, are left out of a task; the wall clock stands still.   *)
(*                                                                         *)
(* A text is the sequence of its lines (its split on '\n'), a line a       *)
(* sequence of characters.  More characters, also written as tokens:       *)
(*                                                                         *)
(* gou U+8D2D      huo U+6D3B      jia U+5BB6      jie U+6D01      le U+4E50*)
(* qing U+6E05     sheng2 U+751F   wu2 U+7269      yu U+5A31               *)
(***************************************************************************)
MaxMainTasks == 2    \* identifiers the in-memory service may draw
MaxItems == 2        \* longest tasks_data list the external classifier returns

RECURSIVE StripLeft(_)
StripLeft(s) == IF s # <<>> /\ Head(s) = " " THEN StripLeft(Tail(s)) ELSE s

RECURSIVE StripRight(_)
StripRight(s) ==
    IF s # <<>> /\ s[Len(s)] = " " THEN StripRight(SubSeq(s, 1, Len(s) - 1)) ELSE s

\* str.strip()
strip(s) == StripRight(StripLeft(s))

\* line.startswith('#')
startswith_hash(line) == line # <<>> /\ Head(line) = "#"

\* study, research, paper, course, academic
fallback_academic_words ==
    {<<"xue", "xi">>, <<"yan", "jiu">>, <<"lun", "wen">>, <<"ke", "cheng">>,
     <<"xue", "shu">>}

\* work, earn money, income, project, client
fallback_income_words ==
    {<<"gong", "zuo">>, <<"zhuan", "qian">>, <<"shou", "ru">>, <<"xiang", "mu">>,
     <<"ke2", "hu">>}

\* exercise, reading, skill, growth, practice
fallback_growth_words ==
    {<<"duan", "lian">>, <<"yue", "du">>, <<"ji", "neng">>, <<"cheng2", "zhang">>,
     <<"lian2", "xi">>}

\* life, shopping, cleaning, housework, entertainment
fallback_life_words ==
    {<<"sheng2", "huo">>, <<"gou", "wu2">>, <<"qing", "jie">>, <<"jia", "wu">>,
     <<"yu", "le">>}

\* the domain process_tasks_fallback recognises in a line
FallbackDomain(line) ==
    CASE AnyIn(fallback_academic_words, lower(line)) -> "academic"
      [] AnyIn(fallback_income_words, lower(line)) -> "income"
      [] AnyIn(fallback_growth_words, lower(line)) -> "growth"
      [] AnyIn(fallback_life_words, lower(line)) -> "life"
      [] OTHER -> "life"

\* the task dict the service builds
MainTask(id, title, domain, status, priority, estimated_minutes) ==
    [id |-> id, title |-> title, domain |-> domain, status |-> status,
     priority |-> priority, estimated_minutes |-> estimated_minutes,
     scheduled_start |-> NoneValue, scheduled_end |-> NoneValue,
     completed_at |-> NoneValue]

\* the loop of process_tasks_fallback from line i on: the tasks it appends,
\* drawn identifiers count + 1, count + 2, ...
RECURSIVE FallbackTasks(_, _, _)
FallbackTasks(lines, i, count) ==
    IF i > Len(lines) THEN <<>>
    ELSE LET line == strip(lines[i])
         IN  IF line = <<>> \/ startswith_hash(line)
             THEN FallbackTasks(lines, i + 1, count)
             ELSE <<MainTask(count + 1, line, FallbackDomain(line), "pending", 3, 30)>>
                      \o FallbackTasks(lines, i + 1, count + 1)

\* input_text.strip().split('\n') drops the blanks around the text, which
\* the strip and the skip of every line drop as well
process_tasks_fallback(input_text, tasks_db, count) ==
    LET processed_tasks == FallbackTasks(input_text, 1, count)
    IN  Outcome(Ok([success |-> TRUE, tasks |-> processed_tasks, ai_analysis |-> FALSE]),
                tasks_db \o processed_tasks,
                count + Len(processed_tasks))

\* the loop of ai_process_tasks over tasks_data from item i on, after the
\* tasks of appended were appended to tasks_db: a null title has no strip()
\* and raises AttributeError out of the loop
RECURSIVE ProcessTasksData(_, _, _, _)
ProcessTasksData(tasks_data, i, appended, count) ==
    IF i > Len(tasks_data) THEN [raised |-> FALSE, tasks |-> appended, count |-> count]
    ELSE LET task_info == tasks_data[i]
             title == GetOr(task_info, "title", Some(<<>>))
         IN  IF ~title.some
             THEN [raised |-> TRUE, tasks |-> appended, count |-> count]
             ELSE LET task == MainTask(count + 1, strip(title.val),
                                       GetOr(task_info, "domain", "life"), "pending",
                                       Max(1, Min(5, GetOr(task_info, "priority", 3))),
                                       Max(5, Min(480, GetOr(task_info, "estimated_minutes", 30))))
                  IN  ProcessTasksData(tasks_data, i + 1,
                                       IF task.title # <<>> THEN Append(appended, task)
                                       ELSE appended,
                                       count + 1)

\* POST /tasks/ai-process, given what call_deepseek_api returned
main_ai_process_tasks(request_data, ai_result) ==
    LET input_text == GetOr(request_data, "input", << <<>> >>)
    IN  IF input_text = << <<>> >> THEN Failed(400)
        ELSE IF ~ai_result.success THEN process_tasks_fallback(input_text, db, created)
        ELSE LET processed == ProcessTasksData(ai_result.tasks_data, 1, <<>>, created)
             IN  IF processed.raised
                 THEN process_tasks_fallback(input_text, db \o processed.tasks,
                                             processed.count)
                 ELSE Outcome(Ok([success |-> TRUE, tasks |-> processed.tasks,
                                  ai_analysis |-> TRUE]),
                              db \o processed.tasks, processed.count)

\* POST /tasks
main_create_task(task_data) ==
    LET task == MainTask(created + 1, GetOr(task_data, "title", <<>>),
                         GetOr(task_data, "domain", "life"),
                         GetOr(task_data, "status", "pending"),
                         GetOr(task_data, "priority", 3),
                         GetOr(task_data, "estimated_minutes", 30))
    IN  Outcome(Ok([success |-> TRUE, task |-> task]), Append(db, task), created + 1)

\* the keys PATCH /tasks/{task_id} takes over from its body
UpdatableKeys ==
    {"title", "domain", "status", "priority", "estimated_minutes",
     "scheduled_start", "scheduled_end", "completed_at"}

\* the position of the first task of tasks_db with the id, 0 if there is none
IndexOfId(task_id) ==
    LET found == {i \in 1..Len(db) : db[i].id = task_id}
    IN  IF found = {} THEN 0 ELSE CHOOSE i \in found : \A j \in found : i <= j

\* PATCH /tasks/{task_id}
main_update_task(task_id, task_data) ==
    LET i == IndexOfId(task_id)
    IN  IF i = 0 THEN Failed(404)
        ELSE LET written == [key \in DOMAIN db[i] |->
                                IF key \in UpdatableKeys /\ HasKey(task_data, key)
                                THEN task_data[key] ELSE db[i][key]]
                 task == IF GetOr(task_data, "status", "none") = "completed"
                            /\ ~written.completed_at.some
                         THEN [written EXCEPT !.completed_at = Some(IsoFormat(now))]
                         ELSE written
             IN  Outcome(Ok([success |-> TRUE, task |-> task]),
                         [db EXCEPT ![i] = task], created)

\* DELETE /tasks/{task_id}
main_delete_task(task_id) ==
    LET i == IndexOfId(task_id)
    IN  IF i = 0 THEN Failed(404)
        ELSE Outcome(Ok([success |-> TRUE, title |-> db[i].title]),
                     SubSeq(db, 1, i - 1) \o SubSeq(db, i + 1, Len(db)), created)

(***************************************************************************)
(* The clients of the in-memory service                                    *)
(***************************************************************************)
\* lines of a request: blank, a comment, "study" with blanks around it, "work"
MainLines ==
    {<<>>, <<"#", "xue", "xi">>, <<" ", "xue", "xi", " ">>, <<"gong", "zuo">>}

MainTexts == UNION {[1..n -> MainLines] : n \in 1..MaxLines}

MainAiRequests == {[input |-> text] : text \in MainTexts} \cup {[other |-> TRUE]}

\* items of the JSON list the external classifier answers with: out of range
\* numbers, a blank title, a null title
TaskInfos ==
    {[title |-> Some(<<"xue", "xi", " ">>), domain |-> "academic", priority |-> 9,
      estimated_minutes |-> 1000],
     [title |-> Some(<<" ">>)],
     [title |-> NoneValue]}

\* what call_deepseek_api returns
AiResults ==
    {[success |-> FALSE]}
        \cup {[success |-> TRUE, tasks_data |-> tasks_data] :
                tasks_data \in UNION {[1..n -> TaskInfos] : n \in 0..MaxItems}}

MainCreateRequests == {[title |-> <<"gong", "zuo">>, priority |-> 1], [domain |-> "growth"]}

MainUpdateRequests == {[status |-> "completed"], [priority |-> 5, id |-> 0]}

MainTaskIds == 1..MaxMainTasks

InitMain ==
    /\ pc = "idle"
    /\ call = IdleCall
    /\ ret = Ok(<<>>)
    /\ db = <<>>
    /\ now = ClockStart
    /\ created = 0

\* the endpoint has run: its response and what it left in tasks_db
MainResponded(op, request, outcome) ==
    /\ outcome.created <= MaxMainTasks
    /\ pc' = "returned"
    /\ call' = [op |-> op, request |-> request]
    /\ ret' = outcome.response
    /\ db' = outcome.db
    /\ created' = outcome.created
    /\ UNCHANGED now

MainAiProcessTasks ==
    /\ pc = "idle"
    /\ \E request_data \in MainAiRequests, ai_result \in AiResults :
          MainResponded("main.ai_process_tasks",
                        [request_data |-> request_data, ai_result |-> ai_result],
                        main_ai_process_tasks(request_data, ai_result))

MainCreateTask ==
    /\ pc = "idle"
    /\ \E task_data \in MainCreateRequests :
          MainResponded("main.create_task", task_data, main_create_task(task_data))

MainUpdateTask ==
    /\ pc = "idle"
    /\ \E task_id \in MainTaskIds, task_data \in MainUpdateRequests :
          MainResponded("main.update_task", [task_id |-> task_id, body |-> task_data],
                        main_update_task(task_id, task_data))

MainDeleteTask ==
    /\ pc = "idle"
    /\ \E task_id \in MainTaskIds :
          MainResponded("main.delete_task", [task_id |-> task_id],
                        main_delete_task(task_id))

NextMain ==
    \/ MainAiProcessTasks
    \/ MainCreateTask
    \/ MainUpdateTask
    \/ MainDeleteTask
    \/ Return

SpecMain == InitMain /\ [][NextMain]_vars

(***************************************************************************)
(* src/app.py: the deployment entry point.  tasks_storage is a list, held  *)
(* in db as a sequence; created counts the tasks ever added.  created_at,  *)
(* which no operation reads, is left out of a task.                        *)
(***************************************************************************)
MaxAppTasks == 3     \* tasks src/app.py may add in a run

\* except Exception as e: raise HTTPException(status_code=500, ...) around
\* the body of an endpoint whose try block left `outcome`: HTTPException is
\* an Exception, so a status raised inside the try block comes out as 500
ExceptException(outcome) ==
    IF outcome.response.kind = "raise" THEN Failed(500) ELSE outcome

\* POST /api/tasks/quick-add of src/app.py
app_quick_add_task(request) ==
    LET task_input == GetOr(request, "task_input", "")
        task == [id |-> Len(db) + 1, title |-> task_input, domain |-> "life",
                 status |-> "pending", estimated_minutes |-> 30, priority |-> 3]
    IN  ExceptException(
            IF task_input = "" THEN Failed(400)
            ELSE Outcome(Ok([success |-> TRUE, task |-> task]), Append(db, task),
                         created + 1))

\* DELETE /api/tasks/{task_id} of src/app.py
app_delete_task(task_id) ==
    LET original_count == Len(db)
        tasks_storage == SelectSeq(db, LAMBDA t : t.id # task_id)
    IN  IF Len(tasks_storage) = original_count THEN Failed(404)
        ELSE Outcome(Ok([success |-> TRUE, remaining |-> Len(tasks_storage)]),
                     tasks_storage, created)

(***************************************************************************)
(* The clients of src/app.py                                               *)
(***************************************************************************)
AppQuickAddRequests ==
    {[task_input |-> t] : t \in {"paper", "walk", ""}} \cup {[source |-> "web"]}

AppTaskIds == 1..MaxAppTasks

\* the endpoint has run: its response and what it left in tasks_storage
AppResponded(op, request, outcome) ==
    /\ outcome.created <= MaxAppTasks
    /\ pc' = "returned"
    /\ call' = [op |-> op, request |-> request]
    /\ ret' = outcome.response
    /\ db' = outcome.db
    /\ created' = outcome.created
    /\ UNCHANGED now

AppQuickAddTask ==
    /\ pc = "idle"
    /\ \E request \in AppQuickAddRequests :
          AppResponded("app.quick_add_task", request, app_quick_add_task(request))

AppDeleteTask ==
    /\ pc = "idle"
    /\ \E task_id \in AppTaskIds :
          AppResponded("app.delete_task", [task_id |-> task_id],
                       app_delete_task(task_id))

NextApp ==
    \/ AppQuickAddTask
    \/ AppDeleteTask
    \/ Return

\* tasks_storage = []
SpecApp == InitMain /\ [][NextApp]_vars

(***************************************************************************)
(* src/main_simple.py: the service with a history of completed tasks.      *)
(* db holds its two dicts, [tasks_db |-> ..., completed_history |-> ...],  *)
(* each a function from task id to task.  An id is f"task_{uuid4().hex[:8]}"*)
(* and is held by the rank of its draw; created counts the draws.  The     *)
(* files the dicts are saved to are written after every change and read    *)
(* only at start-up; created_at, which no endpoint modelled here reads, is *)
(* left out of a task.                                                     *)
(***************************************************************************)
MaxSimpleTasks == 2  \* tasks src/main_simple.py may create in a run

\* d[k] = v on a dict
DictPut(d, k, v) == [x \in DOMAIN d \cup {k} |-> IF x = k THEN v ELSE d[x]]

\* del d[k]
DictDel(d, k) == [x \in DOMAIN d \ {k} |-> d[x]]

\* dict.update(other)
DictUpdate(d, other) ==
    [x \in DOMAIN d \cup DOMAIN other |-> IF x \in DOMAIN other THEN other[x] ELSE d[x]]

\* the two dicts after a change
Stores(tasks, history) == [tasks_db |-> tasks, completed_history |-> history]

\* POST /api/tasks: task is a validated Task, its defaults filled in
simple_create_task(task) ==
    LET task_id == created + 1
        task_data == [title |-> task.title, domain |-> task.domain,
                      status |-> GetOr(task, "status", "pending"),
                      priority |-> GetOr(task, "priority", 3),
                      estimated_minutes |-> GetOr(task, "estimated_minutes", 30),
                      id |-> task_id]
    IN  Outcome(Ok([status |-> "success", task |-> Some(task_data)]),
                Stores(DictPut(db.tasks_db, task_id, task_data), db.completed_history),
                created + 1)

\* mutant: a completed task is copied to the history and stays in tasks_db
simple_update_task_keeps_completed(task_id, task_data) ==
    IF task_id \notin DOMAIN db.tasks_db THEN Failed(404)
    ELSE LET updated == DictUpdate(db.tasks_db[task_id], task_data)
             completed == DictUpdate(updated,
                                     [completed_at |-> IsoFormat(now),
                                      completed_date |-> DayOf(now)])
             stores == IF GetOr(task_data, "status", "none") = "completed"
                       THEN Stores(DictPut(db.tasks_db, task_id, completed),
                                   DictPut(db.completed_history, task_id, completed))
                       ELSE Stores(DictPut(db.tasks_db, task_id, updated),
                                   db.completed_history)
             task == IF task_id \in DOMAIN stores.completed_history
                     THEN stores.completed_history[task_id]
                     ELSE stores.tasks_db[task_id]
         IN  Outcome(Ok([status |-> "success", task |-> Some(task)]), stores, created)

\* PUT /api/tasks/{task_id}
simple_update_task(task_id, task_data) ==
    IF task_id \notin DOMAIN db.tasks_db THEN Failed(404)
    ELSE LET updated == DictUpdate(db.tasks_db[task_id], task_data)
             completed == DictUpdate(updated,
                                     [completed_at |-> IsoFormat(now),
                                      completed_date |-> DayOf(now)])
             stores == IF GetOr(task_data, "status", "none") = "completed"
                       THEN Stores(DictDel(db.tasks_db, task_id),
                                   DictPut(db.completed_history, task_id, completed))
                       ELSE Stores(DictPut(db.tasks_db, task_id, updated),
                                   db.completed_history)
             task == IF task_id \in DOMAIN stores.completed_history
                     THEN stores.completed_history[task_id]
                     ELSE stores.tasks_db[task_id]
         IN  Outcome(Ok([status |-> "success", task |-> Some(task)]), stores, created)

\* PATCH /api/tasks/{task_id}: the body of the PUT handler, statement by
\* statement
simple_patch_task(task_id, task_data) == simple_update_task(task_id, task_data)

\* DELETE /api/tasks/{task_id}
simple_delete_task(task_id) ==
    IF task_id \notin DOMAIN db.tasks_db THEN Failed(404)
    ELSE Outcome(Ok([success |-> TRUE]),
                 Stores(DictDel(db.tasks_db, task_id), db.completed_history),
                 created)

(***************************************************************************)
(* The clients of src/main_simple.py                                       *)
(***************************************************************************)
SimpleTasks ==
    {[title |-> "paper", domain |-> "life"],
     [title |-> "walk", domain |-> "growth", status |-> "completed", priority |-> 1]}

\* bodies of PUT and PATCH: a completion, a completion that brings its own
\* completed_at and id, and a change of priority
SimpleBodies ==
    {[status |-> "completed"],
     [status |-> "completed", completed_at |-> IsoFormat(0), id |-> 0],
     [priority |-> 5]}

SimpleTaskIds == 1..MaxSimpleTasks

\* tasks_db = {}, completed_history = {}: no file has been saved yet
InitSimple ==
    /\ pc = "idle"
    /\ call = IdleCall
    /\ ret = Ok(<<>>)
    /\ db = Stores(<<>>, <<>>)
    /\ now = ClockStart
    /\ created = 0

\* the endpoint has run: its response and what it left in the two dicts
SimpleResponded(op, request, outcome) ==
    /\ outcome.created <= MaxSimpleTasks
    /\ pc' = "returned"
    /\ call' = [op |-> op, request |-> request]
    /\ ret' = outcome.response
    /\ db' = outcome.db
    /\ created' = outcome.created
    /\ UNCHANGED now

SimpleCreateTask ==
    /\ pc = "idle"
    /\ \E task \in SimpleTasks :
          SimpleResponded("simple.create_task", task, simple_create_task(task))

SimpleUpdateTask ==
    /\ pc = "idle"
    /\ \E task_id \in SimpleTaskIds, task_data \in SimpleBodies :
          SimpleResponded("simple.update_task", [task_id |-> task_id, body |-> task_data],
                          simple_update_task(task_id, task_data))

SimplePatchTask ==
    /\ pc = "idle"
    /\ \E task_id \in SimpleTaskIds, task_data \in SimpleBodies :
          SimpleResponded("simple.patch_task", [task_id |-> task_id, body |-> task_data],
                          simple_patch_task(task_id, task_data))

SimpleDeleteTask ==
    /\ pc = "idle"
    /\ \E task_id \in SimpleTaskIds :
          SimpleResponded("simple.delete_task", [task_id |-> task_id],
                          simple_delete_task(task_id))

NextSimple ==
    \/ SimpleCreateTask
    \/ SimpleUpdateTask
    \/ SimplePatchTask
    \/ SimpleDeleteTask
    \/ Tick
    \/ Return

SpecSimple == InitSimple /\ [][NextSimple]_vars

(***************************************************************************)
(* Claims about the slot finder, checked under SpecSlots.                  *)
(***************************************************************************)
Returned(op) == pc = "returned" /\ call.op = op /\ ret.kind = "ok"

MinuteOfDay(t) == t % MinutesPerDay

InMealHour(t) ==
    \/ 12 * 60 <= MinuteOfDay(t) /\ MinuteOfDay(t) < 13 * 60
    \/ 18 * 60 <= MinuteOfDay(t) /\ MinuteOfDay(t) < 19 * 60

\* C1: the slots find_slots_for_date emits are in strictly increasing start
\* order, no slot overlaps a later one (its end is at most the later start),
\* and no slot starts in the lunch hour 12:00-13:00 or the dinner hour
\* 18:00-19:00.
C1_SlotsOrderedDisjointOutsideMeals ==
    Returned("find_slots_for_date") =>
        /\ \A i \in 1..Len(ret.val), j \in 1..Len(ret.val) :
              i < j => /\ ret.val[i].start < ret.val[j].start
                       /\ ret.val[i].end <= ret.val[j].start
        /\ \A i \in 1..Len(ret.val) : ~InMealHour(ret.val[i].start)

\* a day's 28 slots were emitted against a non-empty task list
C1_Witness ==
    /\ Returned("find_slots_for_date")
    /\ Len(ret.val) = 28
    /\ call.existing_tasks.some /\ Len(call.existing_tasks.val) = 2
    /\ \E i \in 1..Len(ret.val) : ~ret.val[i].available

\* the task dicts of an optional list that carry both interval keys
IntervalsOf(existing_tasks) ==
    IF existing_tasks.some
    THEN {existing_tasks.val[i] : i \in
            {k \in 1..Len(existing_tasks.val) :
                /\ HasKey(existing_tasks.val[k], "scheduled_start")
                /\ HasKey(existing_tasks.val[k], "scheduled_end")}}
    ELSE {}

\* C2: an emitted slot is unavailable exactly when some task of the list has
\* slot.start < task.end and task.start < slot.end; a task that ends at the
\* slot's start or starts at the slot's end does not count, and with an empty
\* or absent list every slot is available.
C2_AvailableIffNoTaskIntersects ==
    Returned("find_slots_for_date") =>
        \A i \in 1..Len(ret.val) :
            LET slot == ret.val[i]
                Touching == {t \in IntervalsOf(call.existing_tasks) :
                                /\ slot.start < FromIsoFormat(t.scheduled_end)
                                /\ FromIsoFormat(t.scheduled_start) < slot.end}
            IN  /\ slot.available = (Touching = {})
                /\ (~call.existing_tasks.some \/ call.existing_tasks.val = <<>>)
                       => slot.available

\* a slot stays available next to a task that ends exactly at its start, and
\* another next to a task that starts exactly at its end, while a third slot
\* is taken
C2_Witness ==
    /\ Returned("find_slots_for_date")
    /\ \E i \in 1..Len(ret.val), t \in IntervalsOf(call.existing_tasks) :
          /\ ret.val[i].available
          /\ FromIsoFormat(t.scheduled_end) = ret.val[i].start
          /\ FromIsoFormat(t.scheduled_start) < FromIsoFormat(t.scheduled_end)
    /\ \E i \in 1..Len(ret.val), t \in IntervalsOf(call.existing_tasks) :
          /\ ret.val[i].available
          /\ FromIsoFormat(t.scheduled_start) = ret.val[i].end
          /\ FromIsoFormat(t.scheduled_start) < FromIsoFormat(t.scheduled_end)
    /\ \E i \in 1..Len(ret.val) : ~ret.val[i].available

\* the candidates of the call that are available and long enough
Qualifying ==
    {i \in 1..Len(call.available_slots) :
        /\ call.available_slots[i].available
        /\ call.available_slots[i].end - call.available_slots[i].start
               >= call.task_duration}

\* C3: find_best_slot_for_task returns None exactly when no candidate is
\* available with duration_minutes >= task_duration, and then it returns (it
\* does not raise); a slot it returns is one of the candidates, is available
\* and is long enough.
C3_NoneIffNoCandidateQualifies ==
    (pc = "returned" /\ call.op = "find_best_slot_for_task") =>
        /\ Qualifying = {} => ret = Ok(NoneValue)
        /\ ret.kind = "ok" =>
              /\ ~ret.val.some => Qualifying = {}
              /\ ret.val.some =>
                    \E i \in Qualifying : call.available_slots[i] = ret.val.val

\* a slot was returned although another candidate did not qualify, and None
\* was returned for a non-empty candidate list
C3_Witness ==
    \/ /\ Returned("find_best_slot_for_task")
       /\ ret.val.some
       /\ Len(call.available_slots) = 2
       /\ Cardinality(Qualifying) = 1
    \/ /\ Returned("find_best_slot_for_task")
       /\ ~ret.val.some
       /\ Len(call.available_slots) = 2

\* the days start_date..end_date of a find_free_slots call
RangeDays == DayOf(call.start_date)..DayOf(call.end_date)

\* the available slots of one day, as find_free_slots reports them
DayFreeDicts(date) ==
    LET daily == find_slots_for_date(date, call.existing_tasks)
    IN  IF daily.kind = "ok"
        THEN {to_dict(daily.val[i]) : i \in {k \in 1..Len(daily.val) :
                                                daily.val[k].available}}
        ELSE {}

RetDicts == {ret.val[j] : j \in 1..Len(ret.val)}

\* C5: for start_date <= end_date, whatever their times of day, every
\* calendar day from the day of start_date through the day of end_date
\* contributes its available slots to the result of find_free_slots, and no
\* other day contributes any.
C5_CoversInclusiveDayRange ==
    (Returned("find_free_slots") /\ call.start_date <= call.end_date) =>
        /\ \A d \in RangeDays : DayFreeDicts(d * MinutesPerDay) \subseteq RetDicts
        /\ \A x \in RetDicts : FromIsoFormat(x.start) \div MinutesPerDay \in RangeDays

\* the dates the loop of find_free_slots visits
VisitedDates ==
    {call.start_date + k * MinutesPerDay : k \in
        {n \in 0..(MaxDay + 1) : call.start_date + n * MinutesPerDay <= call.end_date}}

\* C6: the result of find_free_slots holds exactly the slots synthesized for
\* the days it visits whose available flag is true, and it is in strictly
\* increasing start order over the whole range.
C6_ExactlyAvailableSlotsInOrder ==
    Returned("find_free_slots") =>
        /\ RetDicts = UNION {DayFreeDicts(d) : d \in VisitedDates}
        /\ \A x \in RetDicts : x.available
        /\ \A i \in 1..Len(ret.val), j \in 1..Len(ret.val) :
              i < j => FromIsoFormat(ret.val[i].start) < FromIsoFormat(ret.val[j].start)

\* two days were visited and a task took a slot out of the result
C6_Witness ==
    /\ Returned("find_free_slots")
    /\ Cardinality(VisitedDates) = 2
    /\ Len(ret.val) > 28
    /\ Len(ret.val) < 56

(***************************************************************************)
(* Claims about the optimizer, checked under SpecOptimizer.                *)
(***************************************************************************)
\* the position of a domain code in the order academic, income, growth, life
GroupRank(domain) ==
    CASE domain = "academic" -> 1
      [] domain = "income" -> 2
      [] domain = "growth" -> 3
      [] domain = "life" -> 4

AllInFourDomains(items) ==
    \A i \in 1..Len(items) : HasKey(items[i], "domain") /\ items[i].domain \in Domains

DomainChanges(items) ==
    Cardinality({i \in 1..(Len(items) - 1) : items[i].domain # items[i + 1].domain})

DistinctDomains(items) == {items[i].domain : i \in 1..Len(items)}

\* C7: for tasks whose domains are among the four codes, in any input order,
\* optimize_task_sequence returns them grouped by domain with the groups in
\* the order academic, income, growth, life, so the output changes domain
\* (distinct domains present) - 1 times; [life, academic, income] comes out
\* as [academic, income, life].
C7_GroupedInFixedDomainOrder ==
    (Returned("optimize_task_sequence") /\ AllInFourDomains(call.tasks)) =>
        /\ \A i \in 1..Len(ret.val), j \in 1..Len(ret.val) :
              i < j => GroupRank(ret.val[i].domain) <= GroupRank(ret.val[j].domain)
        /\ Len(call.tasks) > 0 =>
              DomainChanges(ret.val) = Cardinality(DistinctDomains(call.tasks)) - 1
        /\ (Len(call.tasks) = 3 /\ call.tasks[1].domain = "life"
            /\ call.tasks[2].domain = "academic" /\ call.tasks[3].domain = "income") =>
              /\ Len(ret.val) = 3
              /\ ret.val[1].domain = "academic"
              /\ ret.val[2].domain = "income"
              /\ ret.val[3].domain = "life"

\* [life, academic, income] was reordered
C7_Witness ==
    /\ Returned("optimize_task_sequence")
    /\ AllInFourDomains(call.tasks)
    /\ Len(call.tasks) = 3
    /\ call.tasks[1].domain = "life"
    /\ call.tasks[2].domain = "academic"
    /\ call.tasks[3].domain = "income"
    /\ ret.val[1].id = 2 /\ ret.val[2].id = 3 /\ ret.val[3].id = 1

\* C8: the output of optimize_task_sequence is a permutation of its input,
\* also when a task has no domain key or a domain outside the four codes.
\* (The tasks of a list have distinct ids, so equal lengths and equal sets of
\* tasks make a permutation.)
C8_OutputIsPermutation ==
    Returned("optimize_task_sequence") =>
        /\ Len(ret.val) = Len(call.tasks)
        /\ {ret.val[i] : i \in 1..Len(ret.val)} = {call.tasks[i] : i \in 1..Len(call.tasks)}

\* the priority value of a task, a missing one counting as 3
PriorityValue(task) == IF "priority" \in DOMAIN task THEN task.priority ELSE 3

GroupName(task) == IF "domain" \in DOMAIN task THEN task.domain ELSE "life"

\* C9: within each domain group of the output of optimize_task_sequence the
\* priority values descend (5 before 1, a missing priority counting as 3),
\* and tasks of equal priority keep their relative input order.
C9_GroupsByPriorityDescendingStable ==
    Returned("optimize_task_sequence") =>
        \A i \in 1..Len(ret.val), j \in 1..Len(ret.val) :
            (i < j /\ GroupName(ret.val[i]) = GroupName(ret.val[j])) =>
                /\ PriorityValue(ret.val[i]) >= PriorityValue(ret.val[j])
                /\ PriorityValue(ret.val[i]) = PriorityValue(ret.val[j])
                       => ret.val[i].id < ret.val[j].id

\* one group of three: a priority-5 task moved in front of a task without
\* priority, and two tasks of equal priority kept their order
C9_Witness ==
    /\ Returned("optimize_task_sequence")
    /\ Len(ret.val) = 3
    /\ \A i \in 1..3 : GroupName(ret.val[i]) = "growth"
    /\ ret.val[1].id = 2 /\ ret.val[2].id = 3 /\ ret.val[3].id = 1
    /\ PriorityValue(ret.val[1]) = 5 /\ PriorityValue(ret.val[2]) = 5
    /\ ~HasKey(ret.val[3], "priority")

\* the symmetric pairwise table of the claim
SymmetricCost(a, b) ==
    IF a = b THEN 0
    ELSE CASE {a, b} = {"academic", "income"} -> 10
           [] {a, b} = {"academic", "growth"} -> 15
           [] {a, b} = {"academic", "life"} -> 20
           [] {a, b} = {"income", "growth"} -> 10
           [] {a, b} = {"income", "life"} -> 15
           [] {a, b} = {"growth", "life"} -> 10

RECURSIVE SymmetricCostSum(_, _)
SymmetricCostSum(schedule, i) ==
    IF i > Len(schedule) THEN 0
    ELSE SymmetricCost(schedule[i - 1].domain, schedule[i].domain)
         + SymmetricCostSum(schedule, i + 1)

\* C10: for a non-empty schedule over the four domains, switch_cost_total is
\* the sum over adjacent items of the symmetric table academic-income 10,
\* academic-growth 15, academic-life 20, income-growth 10, income-life 15,
\* growth-life 10, and 0 for equal domains.
C10_SwitchCostFromSymmetricTable ==
    (Returned("calculate_schedule_quality") /\ call.schedule # <<>>
     /\ AllInFourDomains(call.schedule)) =>
        ret.val.switch_cost_total = SymmetricCostSum(call.schedule, 2)

(***************************************************************************)
(* Claims about the backend, checked under SpecBackend.                    *)
(***************************************************************************)
\* the slots find_free_slots reports at some instant of the clock, as
\* intervals
ReportedSlots ==
    UNION {{[start |-> FromIsoFormat(s.start), end |-> FromIsoFormat(s.end)] :
               s \in Range(FreeSlotsAt[clock].val)} : clock \in ClockValues}

ScheduledRows == {t \in db : t.scheduled_start.some}

\* C4: after any sequence of quick_add_task, ai_process_tasks, create_task,
\* update_task and optimize_schedule, every stored task whose scheduled_start
\* is set has scheduled_end = scheduled_start + estimated_minutes, and its
\* interval lies inside one slot that was reported available:
\* S.start <= scheduled_start and scheduled_end <= S.end.
C4_ScheduledInsideAvailableSlot ==
    \A t \in ScheduledRows :
        /\ t.scheduled_end = Some(t.scheduled_start.val + t.estimated_minutes)
        /\ \E S \in ReportedSlots :
              S.start <= t.scheduled_start.val /\ t.scheduled_end.val <= S.end

(***************************************************************************)
(* Claims about the keyword heuristics, checked under SpecHeuristics.      *)
(***************************************************************************)
\* C11 as stated: the heuristics give "write the paper and prepare for the
\* exam" the domain academic, the priority 3 - 1 = 2 and 60 minutes, no
\* duration adjustment applied.
C11_PaperExamUnadjusted ==
    (Returned("heuristic_fields") /\ call.args.text = PaperExamText)
        => ret.val = [domain |-> "academic", priority |-> 2, estimated_minutes |-> 60]

\* C11 amended: the heuristics give that text the domain academic, the
\* priority 3 - 1 = 2 and 60 + 15 = 75 minutes: its first character is the
\* writing word, so the first duration rule applies.
C11_PaperExamWithWritingRule ==
    (Returned("heuristic_fields") /\ call.args.text = PaperExamText)
        => /\ Contains(PaperExamText, <<"xie">>)
           /\ ret.val = [domain |-> "academic", priority |-> 2,
                         estimated_minutes |-> 75]

C11_Witness ==
    /\ Returned("heuristic_fields")
    /\ call.args.text = PaperExamText
    /\ ret.val.estimated_minutes = 75

\* C12: the domain is decided first match wins in the order academic,
\* income, growth, and is life when no keyword set matches.
C12_DomainFirstMatchWins ==
    Returned("_classify_domain") =>
        LET text == call.args.text
        IN  /\ AnyIn(academic_keywords, text) => ret.val = "academic"
            /\ (~AnyIn(academic_keywords, text) /\ AnyIn(income_keywords, text))
                  => ret.val = "income"
            /\ (~AnyIn(academic_keywords, text) /\ ~AnyIn(income_keywords, text)
                  /\ AnyIn(growth_keywords, text)) => ret.val = "growth"
            /\ (~AnyIn(academic_keywords, text) /\ ~AnyIn(income_keywords, text)
                  /\ ~AnyIn(growth_keywords, text)) => ret.val = "life"

\* a text with an academic and an income keyword was classified academic, and
\* one with an income and a growth keyword sharing a character was not growth
C12_Witness ==
    /\ Returned("_classify_domain")
    /\ AnyIn(academic_keywords, call.args.text)
    /\ AnyIn(income_keywords, call.args.text)
    /\ ret.val = "academic"

\* the boost the claim lists for a domain
ClaimedBoost(domain) ==
    CASE domain = "academic" -> 1
      [] domain = "income" -> 2
      [] OTHER -> 0

\* the base the claim lists for a text
ClaimedBase(text) ==
    IF AnyIn(urgent_words, text) THEN 1
    ELSE IF AnyIn(today_words, text) THEN 2
    ELSE IF AnyIn(spare_words, text) THEN 4
    ELSE 3

Clamp(x, lo, hi) == IF x < lo THEN lo ELSE IF x > hi THEN hi ELSE x

\* C13: the priority is clamp(base - priority_boost(domain), 1, 5), an
\* integer of 1..5.
C13_PriorityIsClampedBaseMinusBoost ==
    Returned("_estimate_priority") =>
        /\ ret.val = Clamp(ClaimedBase(call.args.text) - ClaimedBoost(call.args.domain),
                           1, 5)
        /\ ret.val \in 1..5

\* an urgent text that also has a today word, under income: 1 - 2 is clamped
C13_Witness ==
    /\ Returned("_estimate_priority")
    /\ AnyIn(urgent_words, call.args.text)
    /\ AnyIn(today_words, call.args.text)
    /\ call.args.domain = "income"
    /\ ret.val = 1

\* the base duration the claim lists for a domain
ClaimedBaseDuration(domain) ==
    CASE domain = "academic" -> 60
      [] domain = "income" -> 45
      [] domain = "growth" -> 40
      [] OTHER -> 30

\* C14: the duration is the base of the domain with at most one adjustment,
\* the first that matches of: writing word, base + 15; reply word,
\* max(15, base - 15); meeting word, base + 30; and "reply to the mail" under
\* life takes 15 minutes.
C14_DurationFirstRuleOnly ==
    Returned("_estimate_duration") =>
        LET text == call.args.text
            base == ClaimedBaseDuration(call.args.domain)
        IN  /\ AnyIn(writing_words, text) => ret.val = base + 15
            /\ (~AnyIn(writing_words, text) /\ AnyIn(reply_words, text))
                  => ret.val = Max(15, base - 15)
            /\ (~AnyIn(writing_words, text) /\ ~AnyIn(reply_words, text)
                  /\ AnyIn(meeting_words, text)) => ret.val = base + 30
            /\ (~AnyIn(writing_words, text) /\ ~AnyIn(reply_words, text)
                  /\ ~AnyIn(meeting_words, text)) => ret.val = base
            /\ (text = ReplyMailText /\ call.args.domain = "life") => ret.val = 15

\* a text with a writing word and a reply word got the writing rule only
C14_Witness ==
    /\ Returned("_estimate_duration")
    /\ AnyIn(writing_words, call.args.text)
    /\ AnyIn(reply_words, call.args.text)
    /\ call.args.domain = "life"
    /\ ret.val = 45

(***************************************************************************)
(* Claims about errors.                                                    *)
(***************************************************************************)
\* C15 (checked under SpecOptimizer): the core operations never raise; for
\* every input, a task or schedule item of an unknown domain included, the
\* call returns a result.
C15_CoreNeverRaises == pc = "returned" => ret.kind = "ok"

\* the task dicts of the call whose interval is not empty
ValidIntervalsOf(existing_tasks) ==
    {t \in IntervalsOf(existing_tasks) :
        FromIsoFormat(t.scheduled_start) < FromIsoFormat(t.scheduled_end)}

\* C16 (checked under SpecSlots): a supplied task with
\* scheduled_end <= scheduled_start never changes the available flag of a
\* synthesized slot: every unavailable slot is taken by a task whose
\* scheduled_end is after its scheduled_start.
C16_InvalidIntervalChangesNoFlag ==
    Returned("find_slots_for_date") =>
        \A i \in 1..Len(ret.val) :
            ~ret.val[i].available =>
                \E t \in ValidIntervalsOf(call.existing_tasks) :
                    /\ ret.val[i].start < FromIsoFormat(t.scheduled_end)
                    /\ FromIsoFormat(t.scheduled_start) < ret.val[i].end

(***************************************************************************)
(* Claims about the in-memory service, checked under SpecMain.             *)
(***************************************************************************)
\* the external classifier failed, or an item of its answer cannot be processed
Unprocessable(ai_result) ==
    IF ~ai_result.success THEN TRUE
    ELSE \E i \in DOMAIN ai_result.tasks_data :
            /\ HasKey(ai_result.tasks_data[i], "title")
            /\ ~ai_result.tasks_data[i].title.some

\* the lines of a text that are neither blank nor a '#' comment
TaskLines(text) ==
    {i \in DOMAIN text : strip(text[i]) # <<>> /\ ~startswith_hash(strip(text[i]))}

\* ai_process_tasks answers a text for which the classifier was consulted
AiProcessAnswers ==
    /\ pc = "idle"
    /\ pc' = "returned"
    /\ call'.op = "main.ai_process_tasks"
    /\ GetOr(call'.request.request_data, "input", << <<>> >>) # << <<>> >>

\* C17: when the external classifier fails or its answer cannot be
\* processed, ai_process_tasks returns the success result of the keyword
\* fallback, and the tasks the call adds to tasks_db are exactly the tasks
\* of its response, one per line that is neither blank nor a '#' comment.
C17_FallbackAddsExactlyListedTasks ==
    [][(AiProcessAnswers /\ Unprocessable(call'.request.ai_result)) =>
          /\ ret'.kind = "ok"
          /\ ret'.val.success
          /\ ~ret'.val.ai_analysis
          /\ Len(ret'.val.tasks)
                = Cardinality(TaskLines(call'.request.request_data.input))
          /\ db' = db \o ret'.val.tasks]_vars

(***************************************************************************)
(* More claims about the optimizer, checked under SpecOptimizer.           *)
(***************************************************************************)
\* the per-domain minute counts a quality value carries
MinuteCounts(quality) ==
    IF HasKey(quality, "domain_distribution")
    THEN {quality.domain_distribution[d] : d \in DOMAIN quality.domain_distribution}
    ELSE {}

\* C19: calculate_schedule_quality of an empty schedule returns quality_score,
\* balance_score, efficiency_score and switch_cost_total all 0, and every
\* per-domain minute count the value carries is 0 (it carries none).
C19_EmptyScheduleAllZero ==
    (Returned("calculate_schedule_quality") /\ call.schedule = <<>>) =>
        /\ ret.val.quality_score = 0
        /\ ret.val.balance_score = 0
        /\ ret.val.efficiency_score = 0
        /\ ret.val.switch_cost_total = 0
        /\ \A minutes \in MinuteCounts(ret.val) : minutes = 0

\* the quality of the empty schedule was asked for and returned
C19_Witness ==
    /\ Returned("calculate_schedule_quality")
    /\ call.schedule = <<>>
    /\ DOMAIN ret.val = {"quality_score", "balance_score", "efficiency_score",
                         "switch_cost_total"}

\* the permutations of the four domain codes
DomainPermutations ==
    {p \in [domain_times_keys -> domain_times_keys] :
        \A d \in domain_times_keys : \E e \in domain_times_keys : p[e] = d}

\* those that map the pairwise switch table onto itself
TablePreserving ==
    {p \in DomainPermutations :
        \A a, b \in domain_times_keys : SymmetricCost(p[a], p[b]) = SymmetricCost(a, b)}

\* the schedule with the domain of every item, as the scoring reads it,
\* renamed by p
Relabel(schedule, p) ==
    [i \in 1..Len(schedule) |->
        [k \in DOMAIN schedule[i] \cup {"domain"} |->
            IF k = "domain" THEN p[DomainOf(schedule[i])] ELSE schedule[i][k]]]

\* C20: for every schedule and every permutation of the four domain codes
\* that maps the pairwise switch table onto itself, the relabeled schedule
\* has the quality_score of the original.
C20_QualityInvariantUnderRelabeling ==
    Returned("calculate_schedule_quality") =>
        \A p \in TablePreserving :
            LET relabeled == calculate_schedule_quality(Relabel(call.schedule, p))
            IN  /\ relabeled.kind = "ok"
                /\ relabeled.val.quality_score = ret.val.quality_score

\* a schedule that goes from income to growth was scored, and swapping
\* academic with life and income with growth preserves the table
C20_Witness ==
    /\ Returned("calculate_schedule_quality")
    /\ Len(call.schedule) >= 2
    /\ DomainOf(call.schedule[1]) = "income"
    /\ DomainOf(call.schedule[2]) = "growth"
    /\ ret.val.switch_cost_total > 0
    /\ \E p \in TablePreserving :
          /\ p["academic"] = "life" /\ p["income"] = "growth"
          /\ Relabel(call.schedule, p) # call.schedule
(***************************************************************************)
(* More claims about the slot finder, checked under SpecSlots.             *)
(***************************************************************************)
\* the energy level the claim gives the day-part of a start hour
ClaimedEnergy(hour) ==
    CASE hour < 12 -> 8
      [] hour < 18 -> 6
      [] OTHER -> 4

\* C21: every synthesized slot has a duration_minutes that is a positive
\* multiple of 30 and an energy_level in 1..10: 8 for the morning slots, 6 for
\* the afternoon slots and 4 for the evening slots.
C21_DurationMultipleOf30EnergyByDayPart ==
    Returned("find_slots_for_date") =>
        \A i \in 1..Len(ret.val) :
            /\ duration_minutes(ret.val[i]) > 0
            /\ duration_minutes(ret.val[i]) % 30 = 0
            /\ ret.val[i].energy_level \in 1..10
            /\ ret.val[i].energy_level = ClaimedEnergy(Hour(ret.val[i].start))

\* a day was synthesized with slots of each of the three day-parts
C21_Witness ==
    /\ Returned("find_slots_for_date")
    /\ \E i, j, k \in 1..Len(ret.val) :
          /\ Hour(ret.val[i].start) = 11 /\ ret.val[i].energy_level = 8
          /\ Hour(ret.val[j].start) = 17 /\ ret.val[j].energy_level = 6
          /\ Hour(ret.val[k].start) = 21 /\ ret.val[k].energy_level = 4
\* the domain the claim gives a start hour
ClaimedDomain(hour) ==
    CASE hour \in 6..9 -> "academic"
      [] hour \in 10..13 -> "income"
      [] hour \in 14..17 -> "growth"
      [] OTHER -> "life"

\* C24: the domain of every synthesized slot is decided by its start hour
\* alone: academic for 6-9, income for 10-13, growth for 14-17, life
\* otherwise, whatever the affinities of its day-part; the 13:00 and 13:30
\* slots are income and the evening slots are life.
C24_DomainByStartHour ==
    Returned("find_slots_for_date") =>
        \A i \in 1..Len(ret.val) :
            /\ ret.val[i].domain = ClaimedDomain(Hour(ret.val[i].start))
            /\ Hour(ret.val[i].start) = 13 => ret.val[i].domain = "income"
            /\ Hour(ret.val[i].start) >= 19 => ret.val[i].domain = "life"

\* a day was synthesized whose 13:30 slot is income, against the afternoon
\* affinities, and whose 19:00 slot is life
C24_Witness ==
    /\ Returned("find_slots_for_date")
    /\ \E i, j \in 1..Len(ret.val) :
          /\ Hour(ret.val[i].start) = 13 /\ Minute(ret.val[i].start) = 30
          /\ ret.val[i].domain = "income"
          /\ Hour(ret.val[j].start) = 19 /\ ret.val[j].domain = "life"
\* the score of the claim for a candidate of positive length: domain match,
\* energy against priority, and the share task_duration / duration_minutes
ClaimedScore(slot) ==
    LET length == slot.end - slot.start
        wanted == call.task_duration
    IN  (IF slot.domain = call.domain THEN 10 ELSE 0)
        + (IF call.priority >= 4 /\ slot.energy_level >= 7 THEN 5
           ELSE IF call.priority <= 2 /\ slot.energy_level <= 5 THEN 3
           ELSE 0)
        + (IF 8 * length <= 10 * wanted /\ wanted <= length THEN 8
           ELSE IF 6 * length <= 10 * wanted /\ 10 * wanted < 8 * length THEN 5
           ELSE 0)

\* C22: the slot find_best_slot_for_task returns has the maximum score among
\* the qualifying candidates, the score being 10 for the requested domain,
\* plus 5 for priority >= 4 with energy >= 7 or else 3 for priority <= 2 with
\* energy <= 5, plus 8 for a share in [0.8, 1.0] or 5 for a share in
\* [0.6, 0.8).
C22_ReturnedSlotHasMaximumScore ==
    (Returned("find_best_slot_for_task") /\ ret.val.some) =>
        \A i \in Qualifying :
            ClaimedScore(call.available_slots[i]) <= ClaimedScore(ret.val.val)

\* the second of two qualifying candidates was returned for its higher score
C22_Witness ==
    /\ Returned("find_best_slot_for_task")
    /\ ret.val.some
    /\ Qualifying = {1, 2}
    /\ ret.val.val = call.available_slots[2]
    /\ ClaimedScore(call.available_slots[1]) < ClaimedScore(call.available_slots[2])
\* the qualifying candidates of the maximum score
TopScored ==
    {i \in Qualifying :
        \A j \in Qualifying :
            ClaimedScore(call.available_slots[j]) <= ClaimedScore(call.available_slots[i])}

\* the candidates were supplied in increasing start order
SuppliedChronologically ==
    \A i, j \in 1..Len(call.available_slots) :
        i < j => call.available_slots[i].start < call.available_slots[j].start

\* C23 as stated: among the qualifying candidates of the maximum score,
\* find_best_slot_for_task returns the one of the earliest start, in whatever
\* order the candidates are supplied.
C23_TieGoesToEarliestStart ==
    (Returned("find_best_slot_for_task") /\ ret.val.some) =>
        \A i \in TopScored : ret.val.val.start <= call.available_slots[i].start

\* C23 amended: among the qualifying candidates of the maximum score,
\* find_best_slot_for_task returns the one supplied first; that is the one of
\* the earliest start when the candidates are supplied in increasing start
\* order.
C23_TieGoesToFirstSupplied ==
    (Returned("find_best_slot_for_task") /\ ret.val.some) =>
        /\ \E i \in TopScored :
              /\ \A j \in TopScored : i <= j
              /\ ret.val.val = call.available_slots[i]
        /\ SuppliedChronologically =>
              \A i \in TopScored : ret.val.val.start <= call.available_slots[i].start

\* two candidates tied at the maximum, the later one supplied first, and the
\* later one was returned
C23_Witness ==
    /\ Returned("find_best_slot_for_task")
    /\ ret.val.some
    /\ TopScored = {1, 2}
    /\ call.available_slots[2].start < call.available_slots[1].start
    /\ ret.val.val = call.available_slots[1]
\* the minutes of a domain in the schedule of the call
MinutesOf(d) ==
    LET items == {i \in 1..Len(call.schedule) : DomainOf(call.schedule[i]) = d}
        RECURSIVE Sum(_)
        Sum(S) == IF S = {} THEN 0
                  ELSE LET i == CHOOSE x \in S : TRUE
                       IN  DurationOf(call.schedule[i]) + Sum(S \ {i})
    IN  Sum(items)

\* the balance of the claim is BalanceNum / BalanceDen: the mean over the four
\* domains of max(0, 1 - |minutes - 240| / 240)
BalanceTerm(d) == IF Abs(MinutesOf(d) - 240) >= 240 THEN 0 ELSE 240 - Abs(MinutesOf(d) - 240)

BalanceNum ==
    BalanceTerm("academic") + BalanceTerm("income") + BalanceTerm("growth")
    + BalanceTerm("life")

BalanceDen == 4 * 240

\* the efficiency of the claim is EfficiencyNum / EfficiencyDen:
\* max(0, 1 - switch_cost_total / (max(1, len(schedule) - 1) * 20))
EfficiencyDen == (IF Len(call.schedule) - 1 >= 1 THEN Len(call.schedule) - 1 ELSE 1) * 20

EfficiencyNum ==
    IF ret.val.switch_cost_total >= EfficiencyDen THEN 0
    ELSE EfficiencyDen - ret.val.switch_cost_total

\* a reported value, in hundredths, is exactly num / den
ReportsExactly(hundredths, num, den) == hundredths * den = 100 * num

\* a reported value, in hundredths, is num / den rounded to two decimals
ReportsRounded(hundredths, num, den) == 2 * Abs(hundredths * den - 100 * num) <= den

\* the three reported scores lie in [0, 1]
ScoresInUnitInterval ==
    /\ ret.val.balance_score \in 0..100
    /\ ret.val.efficiency_score \in 0..100
    /\ ret.val.quality_score \in 0..100

ScoredSchedule == Returned("calculate_schedule_quality") /\ call.schedule # <<>>

TimedRows(rows) == {t \in rows : t.scheduled_start.some /\ t.scheduled_end.some}

\* two rows of the table occupy overlapping intervals
SomeOverlap(rows) ==
    \E t, u \in TimedRows(rows) :
        /\ t.id # u.id
        /\ t.scheduled_start.val < u.scheduled_end.val
        /\ u.scheduled_start.val < t.scheduled_end.val

\* C26: a quick_add_task or ai_process_tasks call schedules its tasks clear
\* of the stored ones and of each other: on a table without overlapping
\* scheduled tasks it leaves a table without overlapping scheduled tasks.
C26_SchedulingExcludesOccupiedSlots ==
    [][(pc = "idle" /\ pc' = "returned"
        /\ call'.op \in {"quick_add_task", "ai_process_tasks"}
        /\ ~SomeOverlap(db)) => ~SomeOverlap(db')]_vars
(***************************************************************************)
(* The selector on synthesized slots, checked under SpecSlots.             *)
(***************************************************************************)
\* the candidates of the call are the slots synthesized for a date
AmongSynthesized == Returned("find_best_slot_for_task") /\ HasKey(call, "date")

\* C27: every slot of find_slots_for_date and of find_free_slots is exactly
\* 30 minutes long, so for a task_duration above 30, whatever the domain and
\* the priority, find_best_slot_for_task on synthesized slots returns None.
C27_NoTaskLongerThanASlotIsPlaced ==
    /\ Returned("find_slots_for_date") =>
          \A i \in 1..Len(ret.val) : ret.val[i].end - ret.val[i].start = 30
    /\ Returned("find_free_slots") =>
          \A i \in 1..Len(ret.val) :
              /\ ret.val[i].duration_minutes = 30
              /\ FromIsoFormat(ret.val[i].end) - FromIsoFormat(ret.val[i].start) = 30
    /\ (AmongSynthesized /\ call.task_duration > 30) => ~ret.val.some

\* the selector found no place for 31 minutes among synthesized slots of
\* which some are available
C27_Witness ==
    /\ AmongSynthesized
    /\ call.task_duration = 31
    /\ \E i \in 1..Len(call.available_slots) : call.available_slots[i].available
    /\ ~ret.val.some
(***************************************************************************)
(* Claims about src/app.py, checked under SpecApp.                         *)
(***************************************************************************)
\* the positions of tasks_storage that hold the id
PositionsOf(tasks, task_id) == {i \in 1..Len(tasks) : tasks[i].id = task_id}

\* a delete_task call of src/app.py answers
AppDeleteAnswers == pc = "idle" /\ pc' = "returned" /\ call'.op = "app.delete_task"

\* C28: after any sequence of quick_add_task and delete_task calls the ids
\* of the tasks in tasks_storage are pairwise distinct, and delete_task(id)
\* removes exactly one task when the id is stored and otherwise answers 404
\* and leaves the store unchanged.
C28_IdsDistinctDeleteRemovesOne ==
    /\ [](\A i, j \in 1..Len(db) : i # j => db[i].id # db[j].id)
    /\ [][AppDeleteAnswers =>
            IF PositionsOf(db, call'.request.task_id) = {}
            THEN ret' = HTTPError(404) /\ db' = db
            ELSE ret'.kind = "ok" /\ Len(db') = Len(db) - 1]_vars
\* a quick_add_task call, of src/app.py or of the backend, answers a request
\* whose task_input is empty or missing
EmptyQuickAddAnswers ==
    /\ pc = "idle"
    /\ pc' = "returned"
    /\ call'.op \in {"app.quick_add_task", "quick_add_task"}
    /\ GetOr(call'.request, "task_input", "") = ""

\* C30 (checked under SpecApp; the backend's endpoint has the same
\* handler): quick_add_task with an empty or missing task_input is rejected
\* with status 400 and leaves the task store unchanged.
C30_EmptyInputRejectedWith400 ==
    [][EmptyQuickAddAnswers => (ret' = HTTPError(400) /\ db' = db)]_vars

(***************************************************************************)
(* C29.  In src/main_simple.py, after any sequence of create, PUT, PATCH   *)
(* and delete calls no task id is a key of both tasks_db and               *)
(* completed_history; a PUT or PATCH whose body has status "completed", on *)
(* an id of tasks_db, takes the task out of tasks_db and puts it in        *)
(* completed_history with completed_at and completed_date set from the     *)
(* clock; and every PUT, PATCH or DELETE on an id of completed_history is  *)
(* answered 404 and leaves both dicts as they were.                        *)
(***************************************************************************)
SimpleUpdateOps == {"simple.update_task", "simple.patch_task"}

\* some endpoint of src/main_simple.py answers in this step
SimpleAnswers == pc = "idle" /\ pc' = "returned"

\* the step is a PUT or PATCH with status "completed" on a task of tasks_db
CompletingUpdate ==
    /\ SimpleAnswers
    /\ call'.op \in SimpleUpdateOps
    /\ call'.request.task_id \in DOMAIN db.tasks_db
    /\ GetOr(call'.request.body, "status", "none") = "completed"

\* the step is a PUT, PATCH or DELETE on the id of an earlier completed task
LaterCallOnCompleted ==
    /\ SimpleAnswers
    /\ call'.op \in SimpleUpdateOps \cup {"simple.delete_task"}
    /\ call'.request.task_id \in DOMAIN db.completed_history

MovedToHistory(task_id) ==
    /\ task_id \notin DOMAIN db'.tasks_db
    /\ task_id \in DOMAIN db'.completed_history
    /\ LET task == db'.completed_history[task_id]
       IN  /\ DOMAIN task =
                DOMAIN db.tasks_db[task_id] \cup DOMAIN call'.request.body
                    \cup {"completed_at", "completed_date"}
           /\ task.completed_at = IsoFormat(now)
           /\ task.completed_date = DayOf(now)
           /\ task.status = "completed"
           /\ \A k \in DOMAIN db.tasks_db[task_id] \ (DOMAIN call'.request.body
                                                      \cup {"completed_at", "completed_date"}) :
                 task[k] = db.tasks_db[task_id][k]
    /\ \A other \in DOMAIN db.tasks_db \ {task_id} :
          other \in DOMAIN db'.tasks_db /\ db'.tasks_db[other] = db.tasks_db[other]
    /\ \A other \in DOMAIN db.completed_history \ {task_id} :
          /\ other \in DOMAIN db'.completed_history
          /\ db'.completed_history[other] = db.completed_history[other]

C29_CompletedTasksMoveToHistoryForGood ==
    /\ [](DOMAIN db.tasks_db \cap DOMAIN db.completed_history = {})
    /\ [][CompletingUpdate => MovedToHistory(call'.request.task_id)]_vars
    /\ [][LaterCallOnCompleted => (ret' = HTTPError(404) /\ db' = db)]_vars

\* a task was completed by an update, and a later PATCH on its id has just
\* been answered 404 while another task is still in tasks_db
C29_Witness ==
    /\ pc = "returned"
    /\ call.op = "simple.patch_task"
    /\ call.request.task_id \in DOMAIN db.completed_history
    /\ db.completed_history[call.request.task_id].completed_date = DayOf(now)
    /\ ret = HTTPError(404)
    /\ DOMAIN db.tasks_db # {}

====
